---------------------------- MODULE Spec2Model ----------------------------
(***************************************************************************)
(* Model of the medbook article scraper (packages/server/src/scraper):     *)
(* URL validation, the bounded page fetch, paywall detection, metadata     *)
(* extraction, image extraction and download, HTML sanitising, and the     *)
(* scrapeArticle orchestrator that sequences them.                         *)
(*                                                                         *)
(* Strings are sequences of atoms (TLA+ strings); two JavaScript strings   *)
(* are equal iff their atom sequences are equal.  A host name is the       *)
(* sequence of its dot-separated labels.                                   *)
(***************************************************************************)
EXTENDS Integers, Sequences, FiniteSets, TLC

VARIABLES
  url,          \* the argument of scrapeArticle (what new URL(url) sees)
  stage,        \* how far scrapeArticle has got
  error,        \* code of the ScraperException thrown, or NoError
  pageFetch,    \* fetchHtml: position, timer, number of GETs, what the network did
  html,         \* the body text fetchHtml returned, or NoHtml
  doc,          \* the parsed document ($), or NoDoc
  metadata,     \* result of extractMetadata, or NoMetadata
  contentSelector, \* the resolved content selector
  imageData,    \* result of extractImages
  downloads,    \* downloadAllImages: one record per image download in flight
  images,       \* result of downloadAllImages
  content,      \* result of cleanHtml
  article,      \* the Article returned, or NoArticle
  now,          \* Date.now() of the server, in milliseconds
  limiters,     \* the Maps of the rate limiters: requestCounts of routes/scraper.ts,
                \* convertRateLimiter.counts and previewRateLimiter.counts
  uncleaned,    \* what the Maps would hold had the cleanup timers never fired
  admitted,     \* per route and client, the instants of the requests admitted
                \* during the last RATE_LIMIT_WINDOW_MS
  request,      \* the route handler observed: the latest request to arrive
  app,          \* the state of the App component of the web client
  pending       \* the API requests of the client that have not settled

scrapeVars == <<url, stage, error, pageFetch, html, doc, metadata, contentSelector,
                imageData, downloads, images, content, article>>
serverVars == <<now, limiters, uncleaned, admitted, request>>
clientVars == <<app, pending>>
vars == <<scrapeVars, serverVars, clientVars>>

-----------------------------------------------------------------------------
(* Bounds of the model *)

\* longest host name, in labels, of the exhaustive URL-validation inputs
MaxHostLabels == 3
\* the third and fourth octet of an IPv4 literal range over 0..MaxTailOctet
MaxTailOctet == 1
\* the largest page holds MAX_IMAGES_PER_ARTICLE + ExtraImages images
ExtraImages == 2
\* up to MaxInterleaved concurrent downloads are answered one by one, in
\* every order; the downloads of a larger page are answered together
MaxInterleaved == 2

-----------------------------------------------------------------------------
(* JavaScript strings *)

\* the value undefined, where a string is expected
Undefined == <<"<undefined>">>

Min(a, b) == IF a < b THEN a ELSE b

\* String.prototype.toLowerCase, atom by atom
LowerAtom(a) ==
  CASE a = "LOCALHOST" -> "localhost"
    [] a = "Medium" -> "medium"
    [] a = "COM" -> "com"
    [] a = "Member-only story" -> "member-only story"
    [] a = "Become A Member" -> "become a member"
    [] a = "JavaScript" -> "javascript"
    [] a = "Tech" -> "tech"
    [] OTHER -> a

toLowerCase(s) == [i \in 1..Len(s) |-> LowerAtom(s[i])]

\* s.startsWith(p) and s.endsWith(p), for atom sequences
startsWith(s, p) == Len(s) >= Len(p) /\ SubSeq(s, 1, Len(p)) = p
endsWithSeq(s, p) == Len(s) >= Len(p) /\ SubSeq(s, Len(s) - Len(p) + 1, Len(s)) = p

-----------------------------------------------------------------------------
(* validateMediumUrl *)

\* MEDIUM_DOMAINS, each a sequence of labels
MEDIUM_DOMAINS == <<
  <<"medium", "com">>,
  <<"towardsdatascience", "com">>,
  <<"betterprogramming", "pub">>,
  <<"levelup", "gitconnected", "com">>,
  <<"javascript", "plainenglish", "io">>,
  <<"blog", "devgenius", "io">>,
  <<"uxdesign", "cc">>,
  <<"betterhumans", "pub">>,
  <<"entrepreneurshandbook", "co">>,
  <<"writingcooperative", "com">>,
  <<"psiloveyou", "xyz">>,
  <<"codeburst", "io">>,
  <<"hackernoon", "com">>,
  <<"itnext", "io">>,
  <<"blog", "bitsrc", "io">>,
  <<"bootcamp", "uxdesign", "cc">> >>

\* the labels that match \d{1,3}, with their Number() value
DigitLabels ==
  ("0" :> 0) @@ ("1" :> 1) @@ ("9" :> 9) @@ ("10" :> 10) @@ ("11" :> 11) @@
  ("15" :> 15) @@ ("16" :> 16) @@ ("31" :> 31) @@ ("32" :> 32) @@
  ("126" :> 126) @@ ("127" :> 127) @@ ("128" :> 128) @@ ("168" :> 168) @@
  ("169" :> 169) @@ ("172" :> 172) @@ ("192" :> 192) @@ ("254" :> 254) @@
  ("255" :> 255)

\* lower.match(/^(\d{1,3})\.(\d{1,3})\.(\d{1,3})\.(\d{1,3})$/)
ipv4Match(lower) ==
  Len(lower) = 4 /\ \A i \in 1..4 : lower[i] \in DOMAIN DigitLabels

isPrivateHost(hostname) ==
  LET lower == toLowerCase(hostname)
      a == DigitLabels[lower[1]]
      b == DigitLabels[lower[2]]
  IN  \/ lower = <<"localhost">>
      \/ lower = <<"localhost", "localdomain">>
      \/ /\ ipv4Match(lower)
         /\ \/ a = 127
            \/ a = 10
            \/ a = 172 /\ b >= 16 /\ b <= 31
            \/ a = 192 /\ b = 168
            \/ a = 169 /\ b = 254
            \/ a = 0
      \/ lower = <<"::1">>
      \/ lower = <<"[::1]">>

\* a.endsWith(b) for two labels
labelEndsWith(a, b) == a = b \/ <<a, b>> \in {<<"notmedium", "medium">>}

\* isValidDomain with hostname.endsWith(domain): the dot forgotten
isValidDomainNoDot(hostname) ==
  \E k \in 1..Len(MEDIUM_DOMAINS) :
     LET domain == MEDIUM_DOMAINS[k]
         from == Len(hostname) - Len(domain) + 1
     IN  /\ Len(hostname) >= Len(domain)
         /\ labelEndsWith(hostname[from], domain[1])
         /\ SubSeq(hostname, from + 1, Len(hostname)) = Tail(domain)

\* hostname === domain || hostname.endsWith(`.${domain}`): the dot in front
\* of the domain makes the suffix start at a label boundary
isValidDomain(hostname) ==
  \E k \in 1..Len(MEDIUM_DOMAINS) :
     LET domain == MEDIUM_DOMAINS[k]
     IN  \/ hostname = domain
         \/ Len(hostname) > Len(domain) /\ endsWithSeq(hostname, domain)

\* The code of the exception validateMediumUrl throws, or NoError.
NoError == "none"

validateMediumUrl(u) ==
  IF ~u.parses THEN "INVALID_URL"                 \* new URL(url) throws
  ELSE LET hostname == toLowerCase(u.hostname)
       IN  IF isPrivateHost(hostname) THEN "INVALID_URL"
           ELSE IF u.protocol # "https:" THEN "INVALID_URL"
           ELSE IF ~isValidDomain(hostname) THEN "INVALID_URL"
           ELSE NoError

-----------------------------------------------------------------------------
(* Inputs: URLs *)

UnparsableUrl == [parses |-> FALSE, protocol |-> "", hostname |-> <<>>]

MkUrl(protocol, hostname) ==
  [parses |-> TRUE, protocol |-> protocol, hostname |-> hostname]

\* A special scheme (https, http) has its host lower-cased by the URL parser
\* and a numeric host canonicalised to four octets; any other scheme keeps
\* the host as written.
LowerLabels == {"localhost", "localdomain", "medium", "com", "notmedium", "example", "user"}
MixedCaseLabels == {"LOCALHOST", "Medium", "localhost", "medium", "com"}

SeqsUpTo(S, n) == UNION {[1..k -> S] : k \in 1..n}

TailLabels == <<"0", "1", "9", "10", "255">>

Ipv4Hosts ==
  {<<a, b, TailLabels[c], TailLabels[d]>> :
     a \in DOMAIN DigitLabels, b \in DOMAIN DigitLabels,
     c \in 1..Min(MaxTailOctet + 1, Len(TailLabels)),
     d \in 1..Min(MaxTailOctet + 1, Len(TailLabels))}

\* further host names: numeric labels in front of a domain, longer
\* allow-listed domains, the IPv6 loopback
OtherHosts ==
  {<<"127", "0", "0", "1", "medium", "com">>, <<"10", "medium", "com">>,
   <<"blog", "bitsrc", "io">>, <<"x", "bootcamp", "uxdesign", "cc">>,
   <<"uxdesign", "cc">>, <<"plainenglish", "io">>, <<"[::1]">>,
   <<"towardsdatascience", "com">>, <<"levelup", "gitconnected", "com">>,
   <<"user", "levelup", "gitconnected", "com">>, <<"gitconnected", "com">>}

SpecialHosts == SeqsUpTo(LowerLabels, MaxHostLabels) \cup Ipv4Hosts \cup OtherHosts
OpaqueHosts == SeqsUpTo(MixedCaseLabels, MaxHostLabels) \cup Ipv4Hosts \cup OtherHosts

AllUrls ==
  {UnparsableUrl} \cup
  {MkUrl(p, h) : p \in {"https:", "http:"}, h \in SpecialHosts} \cup
  {MkUrl("git:", h) : h \in OpaqueHosts}

\* the URLs a whole scrape is run on
SampleUrls ==
  {UnparsableUrl,
   MkUrl("https:", <<"user", "medium", "com">>),
   MkUrl("http:", <<"medium", "com">>),
   MkUrl("https:", <<"example", "com">>),
   MkUrl("https:", <<"127", "0", "0", "1">>),
   MkUrl("http:", <<"localhost">>)}

-----------------------------------------------------------------------------
(* The parsed document (cheerio): a tree of element and text nodes *)

NoAttrs == [n \in {} |-> <<>>]

TextNode(s) == [tag |-> "#text", attrs |-> NoAttrs, kids |-> <<>>, data |-> s]
Element(tag, attrs, kids) == [tag |-> tag, attrs |-> attrs, kids |-> kids, data |-> <<>>]

IsElement(node) == node.tag # "#text"

\* $el.attr(name)
attr(el, name) == IF name \in DOMAIN el.attrs THEN el.attrs[name] ELSE Undefined

\* JavaScript truthiness of a string or undefined
Truthy(s) == s # Undefined /\ s # <<>>

\* whitespace atoms (\s)
IsWs(a) == a \in {" ", "\n"}

\* number of characters of an atom: the fillers stand for long runs of text
CharLen(a) ==
  CASE a = "x498" -> 498
    [] a = "x499" -> 499
    [] a = "x500" -> 500
    [] a = "x49" -> 49
    [] a = "x50" -> 50
    [] a = "member-only story" -> 17
    [] a = "Member-only story" -> 17
    [] a = "become a member" -> 15
    [] a = "Become A Member" -> 15
    [] OTHER -> 1

\* s.length: the characters of the atoms of s, summed by halves
RECURSIVE length(_)
length(s) ==
  IF Len(s) = 0 THEN 0
  ELSE IF Len(s) = 1 THEN CharLen(s[1])
  ELSE LET m == Len(s) \div 2
       IN  length(SubSeq(s, 1, m)) + length(SubSeq(s, m + 1, Len(s)))

\* String.prototype.trim
trim(s) ==
  LET first == CHOOSE i \in 1..Len(s) : ~IsWs(s[i]) /\ \A j \in 1..(i - 1) : IsWs(s[j])
      last == CHOOSE i \in 1..Len(s) : ~IsWs(s[i]) /\ \A j \in (i + 1)..Len(s) : IsWs(s[j])
  IN  IF \A i \in 1..Len(s) : IsWs(s[i]) THEN <<>> ELSE SubSeq(s, first, last)

\* s.includes(a), for one atom a
includes(s, a) == \E i \in 1..Len(s) : s[i] = a

\* the concatenation of the sequences of seqs, in order, joined by halves.
\* (A sequence written as a function [i \in 1..n |-> e] has e evaluated
\* again at every use of an element; s \o <<>> is s with its elements
\* evaluated once.)
RECURSIVE FlattenHalves(_)
FlattenHalves(seqs) ==
  IF Len(seqs) = 0 THEN <<>>
  ELSE IF Len(seqs) = 1 THEN seqs[1]
  ELSE LET m == Len(seqs) \div 2
       IN  FlattenHalves(SubSeq(seqs, 1, m)) \o FlattenHalves(SubSeq(seqs, m + 1, Len(seqs)))
Flatten(seqs) == FlattenHalves(seqs \o <<>>)

\* the text of a node: its text nodes, in document order
RECURSIVE textOf(_)
textOf(node) ==
  IF node.tag = "#text" THEN node.data
  ELSE Flatten([i \in 1..Len(node.kids) |-> textOf(node.kids[i])])

\* $(...).text() of a selection: the texts of its elements, concatenated
text(selection) == Flatten([i \in 1..Len(selection) |-> textOf(selection[i])])

\* A selector: an optional ancestor tag (descendant combinator), an optional
\* tag, and an optional attribute test: "has" [a], "=" [a="v"], "*=" [a*="v"],
\* "." class (.v)
Sel(anc, tag, at, op, val) ==
  [anc |-> anc, tag |-> tag, at |-> at, op |-> op, val |-> val]
TagSel(tag) == Sel("", tag, "", "", "")
AttrSel(at, val) == Sel("", "", at, "=", val)
AttrHasSel(at, val) == Sel("", "", at, "*=", val)

\* a class selector matches one of the whitespace-separated class names
hasClass(value, c) ==
  \E i \in 1..Len(value) :
     /\ value[i] = c
     /\ i = 1 \/ IsWs(value[i - 1])
     /\ i = Len(value) \/ IsWs(value[i + 1])

\* does element el match the selector, its ancestor part aside
matchesSimple(el, sel) ==
  /\ IsElement(el)
  /\ el.tag # "#document"
  /\ sel.tag \in {"", "*", el.tag}
  /\ CASE sel.op = "" -> TRUE
       [] sel.op = "has" -> sel.at \in DOMAIN el.attrs
       [] sel.op = "=" -> sel.at \in DOMAIN el.attrs /\ el.attrs[sel.at] = <<sel.val>>
       [] sel.op = "*=" -> sel.at \in DOMAIN el.attrs /\ includes(el.attrs[sel.at], sel.val)
       [] sel.op = "." -> "class" \in DOMAIN el.attrs /\ hasClass(el.attrs["class"], sel.val)

\* container.find(sel): the descendants of node matching sel, in document
\* order; inAnc says whether an ancestor matching sel.anc has been passed
RECURSIVE findIn(_, _, _)
findIn(node, sel, inAnc) ==
  Flatten([i \in 1..Len(node.kids) |->
     LET k == node.kids[i] IN
     IF ~IsElement(k) THEN <<>>
     ELSE (IF matchesSimple(k, sel) /\ (sel.anc = "" \/ inAnc) THEN <<k>> ELSE <<>>)
          \o findIn(k, sel, inAnc \/ (sel.anc # "" /\ k.tag = sel.anc))])

\* $(sel) on the document, and selection.find(sel)
select(d, sel) == findIn(d, sel, FALSE)
find(selection, sel) ==
  Flatten([i \in 1..Len(selection) |-> findIn(selection[i], sel, FALSE)])

\* cheerio.load(html): the document node over the html element
load(markup) ==
  Element("#document", NoAttrs,
    <<Element("html", NoAttrs,
        <<Element("head", NoAttrs, markup.head), Element("body", NoAttrs, markup.body)>>)>>)

-----------------------------------------------------------------------------
(* constants.ts: CSS_SELECTORS *)

PaywallSelectors ==
  <<AttrSel("data-testid", "paywall"), Sel("", "", "class", ".", "meteredContent"),
    AttrHasSel("id", "paywall")>>
TitleSelectors == <<TagSel("h1"), AttrSel("data-testid", "storyTitle")>>
SubtitleSelectors ==
  <<TagSel("h2"), AttrSel("data-testid", "storySubtitle"),
    Sel("", "meta", "name", "=", "description")>>
AuthorSelectors ==
  <<AttrSel("data-testid", "authorName"), Sel("", "meta", "name", "=", "author"),
    AttrSel("rel", "author")>>
PublishedDateSelectors ==
  <<Sel("", "time", "datetime", "has", ""),
    Sel("", "meta", "property", "=", "article:published_time")>>
ReadingTimeSelectors == <<AttrSel("data-testid", "storyReadTime")>>
TagSelectors == <<AttrSel("data-testid", "tag"), Sel("", "a", "href", "*=", "/tag/")>>
ContentSelectors ==
  <<Sel("article", "section", "", "", ""), AttrSel("data-field", "body"), TagSel("article")>>

\* selector.startsWith('meta'), selector.includes('time')
selectorStartsWithMeta(sel) == sel.anc = "" /\ sel.tag = "meta"
selectorIncludesTime(sel) == sel.tag = "time" \/ sel.val = "article:published_time"

-----------------------------------------------------------------------------
(* checkPaywall *)

\* articleContent.length < 500
PAYWALL_MIN_ARTICLE_LENGTH == 500

\* checkPaywall with the article text measured untrimmed
checkPaywallUntrimmed(d) ==
  IF \E k \in 1..Len(PaywallSelectors) : select(d, PaywallSelectors[k]) # <<>>
  THEN "PAYWALL"
  ELSE LET bodyText == toLowerCase(text(select(d, TagSel("body"))))
           articleContent == text(select(d, TagSel("article")))
       IN  IF /\ includes(bodyText, "member-only story") \/ includes(bodyText, "become a member")
              /\ length(articleContent) < PAYWALL_MIN_ARTICLE_LENGTH
           THEN "PAYWALL"
           ELSE NoError

checkPaywall(d) ==
  IF \E k \in 1..Len(PaywallSelectors) : select(d, PaywallSelectors[k]) # <<>>
  THEN "PAYWALL"
  ELSE LET bodyText == toLowerCase(text(select(d, TagSel("body"))))
           articleContent == trim(text(select(d, TagSel("article"))))
       IN  IF /\ includes(bodyText, "member-only story") \/ includes(bodyText, "become a member")
              /\ length(articleContent) < PAYWALL_MIN_ARTICLE_LENGTH
           THEN "PAYWALL"
           ELSE NoError

-----------------------------------------------------------------------------
(* extractWithSelectors, extractMetadata *)

RECURSIVE extractFrom(_, _, _)
extractFrom(d, selectors, k) ==
  IF k > Len(selectors) THEN Undefined
  ELSE LET selector == selectors[k]
           matched == select(d, selector)
           element == matched[1]                   \* $(selector).first()
       IN  IF matched = <<>> THEN extractFrom(d, selectors, k + 1)
           ELSE IF selectorStartsWithMeta(selector)
           THEN IF Truthy(attr(element, "content"))
                THEN trim(attr(element, "content"))
                ELSE extractFrom(d, selectors, k + 1)
           ELSE IF trim(textOf(element)) # <<>>
                THEN trim(textOf(element))
                ELSE extractFrom(d, selectors, k + 1)

extractWithSelectors(d, selectors) == extractFrom(d, selectors, 1)

\* the loop over CSS_SELECTORS.publishedDate: the value left in publishedDate
RECURSIVE publishedDateFrom(_, _, _)
publishedDateFrom(d, k, current) ==
  IF k > Len(PublishedDateSelectors) THEN current
  ELSE LET selector == PublishedDateSelectors[k]
           matched == select(d, selector)
           element == matched[1]
           value == IF selectorIncludesTime(selector)
                    THEN (IF Truthy(attr(element, "datetime")) THEN attr(element, "datetime") ELSE <<>>)
                    ELSE IF selectorStartsWithMeta(selector)
                    THEN (IF Truthy(attr(element, "content")) THEN attr(element, "content") ELSE <<>>)
                    ELSE current
       IN  IF matched = <<>> THEN publishedDateFrom(d, k + 1, current)
           ELSE IF value # <<>> THEN value
           ELSE publishedDateFrom(d, k + 1, value)

\* new Date().toISOString()
NowIso == <<"<now>">>

\* readingTimeText?.match(/\d+\s*min/)?.[0]
DigitAtoms == {"3", "5", "12"}
RECURSIVE skipWs(_, _)
skipWs(s, i) == IF i <= Len(s) /\ IsWs(s[i]) THEN skipWs(s, i + 1) ELSE i
matchMinutes(s) ==
  LET hits == {i \in 1..Len(s) :
                 /\ s[i] \in DigitAtoms
                 /\ skipWs(s, i + 1) <= Len(s)
                 /\ s[skipWs(s, i + 1)] = "min"}
      first == CHOOSE i \in hits : \A j \in hits : i <= j
  IN  IF s = Undefined \/ hits = {} THEN Undefined
      ELSE SubSeq(s, first, skipWs(s, first + 1))

\* tag.length < 50
TAG_MAX_LENGTH == 50

NoTags == <<Undefined>>

\* collectTags keeping the text as the page spells it (no toLowerCase)
RECURSIVE collectTagsAsSpelled(_, _)
collectTagsAsSpelled(elements, tags) ==
  IF elements = <<>> THEN tags
  ELSE LET tag == trim(textOf(Head(elements)))
       IN  IF tag # <<>> /\ (\A i \in 1..Len(tags) : tags[i] # tag) /\ length(tag) < TAG_MAX_LENGTH
           THEN collectTagsAsSpelled(Tail(elements), Append(tags, tag))
           ELSE collectTagsAsSpelled(Tail(elements), tags)

\* the two nested loops over CSS_SELECTORS.tags and the elements matched
RECURSIVE collectTags(_, _)
collectTags(elements, tags) ==
  IF elements = <<>> THEN tags
  ELSE LET tag == toLowerCase(trim(textOf(Head(elements))))
       IN  IF tag # <<>> /\ (\A i \in 1..Len(tags) : tags[i] # tag) /\ length(tag) < TAG_MAX_LENGTH
           THEN collectTags(Tail(elements), Append(tags, tag))
           ELSE collectTags(Tail(elements), tags)

extractTags(d) ==
  collectTags(Flatten([k \in 1..Len(TagSelectors) |-> select(d, TagSelectors[k])]), <<>>)

UnknownAuthor == <<"Unknown Author">>

\* the code extractMetadata throws, or NoError
extractMetadataError(d) ==
  IF ~Truthy(extractWithSelectors(d, TitleSelectors)) THEN "PARSE_ERROR" ELSE NoError

\* extractMetadata without the fallback for the author
extractMetadataNoFallback(d, u) ==
  LET publishedDate == publishedDateFrom(d, 1, <<>>)
      tags == extractTags(d)
  IN  [url |-> u,
       title |-> extractWithSelectors(d, TitleSelectors),
       subtitle |-> extractWithSelectors(d, SubtitleSelectors),
       author |-> extractWithSelectors(d, AuthorSelectors),
       publishedDate |-> IF publishedDate # <<>> THEN publishedDate ELSE NowIso,
       readingTime |-> matchMinutes(extractWithSelectors(d, ReadingTimeSelectors)),
       tags |-> IF Len(tags) > 0 THEN tags ELSE NoTags]

extractMetadata(d, u) ==
  LET author == extractWithSelectors(d, AuthorSelectors)
      publishedDate == publishedDateFrom(d, 1, <<>>)
      tags == extractTags(d)
  IN  [url |-> u,
       title |-> extractWithSelectors(d, TitleSelectors),
       subtitle |-> extractWithSelectors(d, SubtitleSelectors),
       author |-> IF Truthy(author) THEN author ELSE UnknownAuthor,
       publishedDate |-> IF publishedDate # <<>> THEN publishedDate ELSE NowIso,
       readingTime |-> matchMinutes(extractWithSelectors(d, ReadingTimeSelectors)),
       tags |-> IF Len(tags) > 0 THEN tags ELSE NoTags]

-----------------------------------------------------------------------------
(* html-cleaner.ts: extractImages *)

HttpsColon == <<"http", "s", ":">>

\* the .each callback over the img elements: an img is pushed when its src
\* is truthy, no earlier img has put that src into seen, and the src starts
\* with http or //
eachImg(imgs) ==
  LET src(i) == IF Truthy(attr(imgs[i], "src")) THEN attr(imgs[i], "src")
                ELSE attr(imgs[i], "data-src")
      alt(i) == attr(imgs[i], "alt")
      imgUrl(i) == IF startsWith(src(i), <<"//">>) THEN HttpsColon \o src(i) ELSE src(i)
      pushed(i) ==
        /\ Truthy(src(i))
        /\ \A j \in 1..(i - 1) : src(j) # src(i)          \* !seen.has(src)
        /\ startsWith(src(i), <<"http">>) \/ startsWith(src(i), <<"//">>)
      idx == SelectSeq([i \in 1..Len(imgs) |-> i], pushed)
  IN  [k \in 1..Len(idx) |->
         [url |-> imgUrl(idx[k]),
          alt |-> IF Truthy(alt(idx[k])) THEN alt(idx[k]) ELSE Undefined]]

extractImages(d, sel) == eachImg(find(select(d, sel), TagSel("img")))

-----------------------------------------------------------------------------
(* html-cleaner.ts: cleanHtml *)

\* constants.ts: ELEMENTS_TO_REMOVE
ELEMENTS_TO_REMOVE ==
  <<TagSel("nav"), TagSel("header"), TagSel("footer"), TagSel("aside"),
    TagSel("script"), TagSel("style"), TagSel("noscript"), TagSel("iframe"),
    TagSel("svg"), TagSel("button"), TagSel("form"), TagSel("input"),
    AttrSel("data-testid", "headerNav"), AttrSel("data-testid", "footerNav"),
    AttrSel("role", "banner"), AttrSel("role", "navigation"),
    AttrSel("role", "complementary"),
    AttrHasSel("class", "share"), AttrHasSel("class", "social"),
    AttrHasSel("class", "comment"), AttrHasSel("class", "related"),
    AttrHasSel("class", "recommend"), AttrHasSel("class", "follow"),
    AttrHasSel("class", "subscribe"), AttrHasSel("class", "newsletter"),
    AttrHasSel("class", "ad-"), AttrHasSel("class", "ads-"),
    AttrHasSel("class", "promo")>>

VoidTags == {"img", "br", "hr", "input", "meta", "link"}

\* removeMatching with container.children(selector) for container.find(selector)
removeMatchingChildren(node, sel) ==
  [node EXCEPT !.kids = SelectSeq(node.kids, LAMBDA k : ~matchesSimple(k, sel))]

\* container.find(selector).remove(): node without the descendants matching
RECURSIVE removeMatching(_, _)
removeMatching(node, sel) ==
  LET kept == SelectSeq(node.kids, LAMBDA k : ~matchesSimple(k, sel))
  IN  [node EXCEPT !.kids = [i \in 1..Len(kept) |->
          IF IsElement(kept[i]) THEN removeMatching(kept[i], sel) ELSE kept[i]] \o <<>>]

RECURSIVE removeAllMatching(_, _)
removeAllMatching(node, k) ==
  IF k > Len(ELEMENTS_TO_REMOVE) THEN node
  ELSE removeAllMatching(removeMatching(node, ELEMENTS_TO_REMOVE[k]), k + 1)

\* $el.text().trim() === '' && $el.find('img').length === 0, for a tag that
\* is not skipped
isEmptyElement(el) ==
  /\ IsElement(el)
  /\ el.tag \notin VoidTags
  /\ trim(textOf(el)) = <<>>
  /\ findIn(el, TagSel("img"), FALSE) = <<>>

\* container.find('*').each(...): every empty element is removed
RECURSIVE removeEmpty(_)
removeEmpty(node) ==
  LET kept == SelectSeq(node.kids, LAMBDA k : ~isEmptyElement(k))
  IN  [node EXCEPT !.kids = [i \in 1..Len(kept) |->
          IF IsElement(kept[i]) THEN removeEmpty(kept[i]) ELSE kept[i]] \o <<>>]

removeUnwantedElements(container) ==
  [i \in 1..Len(container) |-> removeEmpty(removeAllMatching(container[i], 1))] \o <<>>

\* attr.startsWith('data-'), attr.startsWith('aria-'), attr.startsWith('on')
attrStartsWith(name, prefix) ==
  CASE prefix = "data-" -> name \in {"data-src", "data-testid", "data-tracking", "data-field"}
    [] prefix = "aria-" -> name \in {"aria-label", "aria-hidden"}
    [] prefix = "on" -> name \in {"onclick", "onerror", "onload"}

\* el.attribs restricted to the names in keep
keepAttrs(attrs, keep) == [n \in DOMAIN attrs \cap keep |-> attrs[n]]

\* strippedAttrs without the removal of the aria-* and on* attributes
strippedAttrsDataOnly(attrs) ==
  [n \in {m \in DOMAIN attrs : ~(attrStartsWith(m, "data-") /\ m # "data-testid")} |-> attrs[n]]

\* the first loop of cleanAttributes on one element
strippedAttrs(attrs) ==
  [n \in {m \in DOMAIN attrs :
            /\ ~(attrStartsWith(m, "data-") /\ m # "data-testid")
            /\ ~(attrStartsWith(m, "aria-") \/ attrStartsWith(m, "on"))} |-> attrs[n]]

\* the body of the .each callback of cleanAttributes
cleanElementAttrs(el) ==
  LET stripped == strippedAttrs(el.attrs)
      \* read after the first loop has removed the data-* attributes
      src == IF "src" \in DOMAIN stripped /\ stripped["src"] # <<>>
             THEN stripped["src"]
             ELSE IF "data-src" \in DOMAIN stripped THEN stripped["data-src"] ELSE Undefined
      alt == IF "alt" \in DOMAIN stripped THEN stripped["alt"] ELSE Undefined
      kept == keepAttrs(stripped, {"src", "alt"})
      withSrc == IF Truthy(src) THEN ("src" :> src) @@ kept ELSE kept
      withAlt == IF Truthy(alt) THEN ("alt" :> alt) @@ withSrc ELSE withSrc
  IN  IF el.tag = "a" THEN keepAttrs(stripped, {"href", "title"})
      ELSE IF el.tag = "img" THEN withAlt
      ELSE stripped

RECURSIVE cleanAttributesIn(_)
cleanAttributesIn(node) ==
  [node EXCEPT !.kids = [i \in 1..Len(node.kids) |->
     LET k == node.kids[i] IN
     IF IsElement(k)
     THEN cleanAttributesIn([k EXCEPT !.attrs = cleanElementAttrs(k)])
     ELSE k] \o <<>>]

cleanAttributes(container) ==
  [i \in 1..Len(container) |-> cleanAttributesIn(container[i])] \o <<>>

\* the attribute names of the model, in the order they are written out
AttrOrder ==
  <<"id", "class", "role", "rel", "name", "property", "content", "datetime",
    "href", "title", "target", "src", "data-src", "alt", "width", "data-field",
    "data-testid", "data-tracking", "aria-label", "aria-hidden", "onclick",
    "onerror", "onload">>

\* entity escaping of the serializer
escapeAttr(value) ==
  [i \in 1..Len(value) |->
     CASE value[i] = "&" -> "&amp;" [] value[i] = "\"" -> "&quot;" [] OTHER -> value[i]]
escapeText(data) ==
  [i \in 1..Len(data) |->
     CASE data[i] = "&" -> "&amp;" [] data[i] = "<" -> "&lt;" [] data[i] = ">" -> "&gt;"
       [] OTHER -> data[i]]

serializeAttrs(attrs) ==
  Flatten([i \in 1..Len(AttrOrder) |->
     IF AttrOrder[i] \in DOMAIN attrs
     THEN <<" ", AttrOrder[i], "=\"">> \o escapeAttr(attrs[AttrOrder[i]]) \o <<"\"">>
     ELSE <<>>])

\* the outer HTML of a node
RECURSIVE serialize(_)
serialize(node) ==
  IF node.tag = "#text" THEN escapeText(node.data)
  ELSE <<"<", node.tag>> \o serializeAttrs(node.attrs) \o <<">">>
       \o Flatten([i \in 1..Len(node.kids) |-> serialize(node.kids[i])])
       \o (IF node.tag \in VoidTags THEN <<>> ELSE <<"</", node.tag, ">">>)

\* container.html(): the inner HTML of the first element of the selection
innerHtml(container) ==
  Flatten([i \in 1..Len(container[1].kids) |-> serialize(container[1].kids[i])])

\* .replace(/\s+/g, ' ')
collapseWhitespace(s) ==
  LET first(i) == ~(i > 1 /\ IsWs(s[i]) /\ IsWs(s[i - 1]))   \* not inside a run
      idx == SelectSeq([i \in 1..Len(s) |-> i], first)
  IN  [j \in 1..Len(idx) |-> IF IsWs(s[idx[j]]) THEN " " ELSE s[idx[j]]] \o <<>>

\* .replace(/>\s+</g, '><'), after the whitespace runs have been collapsed
removeWhitespaceBetweenTags(s) ==
  LET drop == {i \in 2..(Len(s) - 1) :
                 IsWs(s[i]) /\ s[i - 1] = ">" /\ s[i + 1] \in {"<", "</"}}
      keep(i) == i \notin drop
      idx == SelectSeq([i \in 1..Len(s) |-> i], keep)
  IN  [i \in 1..Len(idx) |-> s[idx[i]]] \o <<>>

\* .clone() leaving out the copy: the selected elements themselves
cloneNothing(selection) == [nodes |-> selection, ofDocument |-> TRUE]

\* $(contentSelector).clone(): deep copies of the selected elements, which
\* are no part of the document
clone(selection) == [nodes |-> selection, ofDocument |-> FALSE]

\* node after removeUnwantedElements and cleanAttributes have edited, in
\* place, its outermost descendants matching sel
RECURSIVE editIn(_, _, _)
editIn(node, sel, inAnc) ==
  [node EXCEPT !.kids = [i \in 1..Len(node.kids) |->
     LET k == node.kids[i] IN
     IF ~IsElement(k) THEN k
     ELSE IF matchesSimple(k, sel) /\ (sel.anc = "" \/ inAnc)
     THEN cleanAttributesIn(removeEmpty(removeAllMatching(k, 1)))
     ELSE editIn(k, sel, inAnc \/ (sel.anc # "" /\ k.tag = sel.anc))] \o <<>>]

\* the document once cleanHtml has returned: removeUnwantedElements and
\* cleanAttributes edit the elements of the container, which are elements
\* of the document only if the container holds the selection itself
documentAfterCleanHtml(d, sel) ==
  IF clone(select(d, sel)).ofDocument THEN editIn(d, sel, FALSE) ELSE d

cleanHtml(d, sel) ==
  LET container == clone(select(d, sel)).nodes
      cleaned == cleanAttributes(removeUnwantedElements(container))
      inner == innerHtml(cleaned)
  IN  IF container = <<>> THEN <<>>
      ELSE trim(removeWhitespaceBetweenTags(collapseWhitespace(inner)))

-----------------------------------------------------------------------------
(* image-downloader.ts: downloadImage, downloadAllImages *)

MAX_IMAGE_SIZE_BYTES == 5 * 1024 * 1024
MAX_IMAGES_PER_ARTICLE == 50

\* parseInt(contentLength, 10); NaN compares false with every number and is
\* modelled by a number that > never holds for
NaN == -1
parseInt(header) ==
  CASE header = <<"100">> -> 100
    [] header = <<"5242880">> -> 5242880
    [] header = <<"5242881">> -> 5242881
    [] header = <<"6291456">> -> 6291456
    [] OTHER -> NaN

\* Buffer.from(arrayBuffer).toString('base64')
toBase64(body) == <<"base64<", body.bytes, ">">>

DefaultContentType == <<"image/", "jpeg">>

\* One download: where downloadImage stands (awaitFetch, awaitBody, settled
\* or, had it thrown, threw), its timer, the content type it read (a local
\* that ends with the call), what ended it, the value it returned, and its
\* rank among the downloads of the call in the order they settled (0 while
\* it is pending).
NewDownload ==
  [pc |-> "awaitFetch", timer |-> "armed", contentType |-> Undefined,
   ended |-> "", result |-> Undefined, rank |-> 0]

\* return undefined
returnUndefined(dl, why) ==
  [dl EXCEPT !.pc = "settled", !.contentType = Undefined, !.ended = why]

\* imageOnResponse without the check of the content-length header
imageOnResponseUnmeasured(dl, resp) ==
  LET contentType == IF Truthy(resp.contentType) THEN resp.contentType ELSE DefaultContentType
      cleared == [dl EXCEPT !.timer = "cleared"]
  IN  IF ~resp.ok THEN returnUndefined(cleared, "status")
      ELSE IF ~startsWith(contentType, <<"image/">>) THEN returnUndefined(cleared, "contentType")
      ELSE [cleared EXCEPT !.pc = "awaitBody", !.contentType = contentType]

\* downloadImage from the response to the call of arrayBuffer()
imageOnResponse(dl, resp) ==
  LET contentType == IF Truthy(resp.contentType) THEN resp.contentType ELSE DefaultContentType
      cleared == [dl EXCEPT !.timer = "cleared"]
  IN  IF ~resp.ok THEN returnUndefined(cleared, "status")
      ELSE IF ~startsWith(contentType, <<"image/">>) THEN returnUndefined(cleared, "contentType")
      ELSE IF Truthy(resp.contentLength) /\ parseInt(resp.contentLength) > MAX_IMAGE_SIZE_BYTES
      THEN returnUndefined(cleared, "contentLength")
      ELSE [cleared EXCEPT !.pc = "awaitBody", !.contentType = contentType]

\* imageOnBody with >= for > in the check of the byte length
imageOnBodyExclusive(dl, body) ==
  IF body.byteLength >= MAX_IMAGE_SIZE_BYTES
  THEN returnUndefined(dl, "byteLength")
  ELSE [dl EXCEPT !.pc = "settled", !.contentType = Undefined, !.ended = "data",
                  !.result = <<"data:">> \o dl.contentType \o <<";base64,">> \o toBase64(body)]

\* downloadImage from the body to its return
imageOnBody(dl, body) ==
  IF body.byteLength > MAX_IMAGE_SIZE_BYTES
  THEN returnUndefined(dl, "byteLength")
  ELSE [dl EXCEPT !.pc = "settled", !.contentType = Undefined, !.ended = "data",
                  !.result = <<"data:">> \o dl.contentType \o <<";base64,">> \o toBase64(body)]

\* imageOnReject without the catch block: the rejection leaves downloadImage
imageOnRejectThrows(dl) == [dl EXCEPT !.pc = "threw", !.ended = "rejected"]

\* the catch block: fetch or arrayBuffer rejected; the timer is not cleared
imageOnReject(dl) == returnUndefined(dl, "rejected")

\* the timer callback: controller.abort() rejects what is pending, and the
\* catch block returns undefined
imageOnTimer(dl) ==
  IF dl.pc = "settled" THEN [dl EXCEPT !.timer = "fired"]
  ELSE returnUndefined([dl EXCEPT !.timer = "fired"], "aborted")

\* the promises of limitedImageData.map(...) with promise i moved on to
\* next: a promise that settles takes the next rank
settleIn(dls, i, next) ==
  LET settledBefore == Cardinality({j \in 1..Len(dls) : dls[j].pc \in {"settled", "threw"}})
  IN  [dls EXCEPT ![i] =
         IF dls[i].pc \notin {"settled", "threw"} /\ next.pc \in {"settled", "threw"}
         THEN [next EXCEPT !.rank = settledBefore + 1]
         ELSE next]

\* the promises moved on to next all in one turn: those that settle take
\* the next ranks, in the order of the array or backwards
settleAll(dls, next, backwards) ==
  LET done == {j \in 1..Len(dls) : dls[j].pc \in {"settled", "threw"}}
      settling == {j \in 1..Len(dls) : j \notin done /\ next[j].pc \in {"settled", "threw"}}
      place(i) == Cardinality({j \in settling : IF backwards THEN j >= i ELSE j <= i})
  IN  [i \in 1..Len(dls) |->
         IF i \in settling THEN [next[i] EXCEPT !.rank = Cardinality(done) + place(i)]
         ELSE next[i]]

\* imageData.slice(0, MAX_IMAGES_PER_ARTICLE)
limitedImageData(data) == SubSeq(data, 1, Min(Len(data), MAX_IMAGES_PER_ARTICLE))

\* downloadResults with each entry pushed when its download settles
downloadResultsAsSettled(data, dls) ==
  [k \in 1..Len(dls) |->
     LET i == CHOOSE j \in 1..Len(dls) : dls[j].rank = k
     IN  [originalUrl |-> data[i].url, base64 |-> dls[i].result, alt |-> data[i].alt]]

\* the array Promise.all resolves to
downloadResults(data, dls) ==
  [i \in 1..Len(dls) |->
     [originalUrl |-> data[i].url, base64 |-> dls[i].result, alt |-> data[i].alt]]

-----------------------------------------------------------------------------
(* Inputs: what the servers answer *)

PageStatuses == {200, 403, 404, 500, 503}
\* response.ok
IsOk(status) == status >= 200 /\ status <= 299

ImageResponses ==
  [ok : BOOLEAN,
   contentType : {Undefined, <<>>, <<"image/", "png">>, <<"text/", "html">>},
   contentLength : {Undefined, <<"100">>, <<"5242880">>, <<"5242881">>, <<"abc">>}]

ImageBodies ==
  {[byteLength |-> 3, bytes |-> "png"],
   [byteLength |-> MAX_IMAGE_SIZE_BYTES, bytes |-> "big"],
   [byteLength |-> MAX_IMAGE_SIZE_BYTES + 1, bytes |-> "huge"]}

-----------------------------------------------------------------------------
(* Inputs: pages.  A page is the head and the body of the HTML served. *)

El(tag, kids) == Element(tag, NoAttrs, kids)
ElA(tag, name, value, kids) == Element(tag, name :> value, kids)
P(s) == El("p", <<TextNode(s)>>)
Newline == TextNode(<<"\n", " ">>)

UrlA == <<"http", "s", ":", "//", "cdn/a.png">>
UrlB == <<"http", ":", "//", "cdn/b.jpg">>
UrlR == <<"http", "s", ":", "//", "cdn/r.png">>
UrlAmp == <<"http", "s", ":", "//", "cdn/q.png?w=1", "&", "h=2">>

ImgSrc(src, alt) == Element("img", ("src" :> src) @@ ("alt" :> alt) @@ ("width" :> <<"700">>), <<>>)
ImgNoAlt(src) == Element("img", "src" :> src, <<>>)
ImgLazy(src) == Element("img", ("data-src" :> src) @@ ("alt" :> <<"lazy">>), <<>>)

\* the img elements of a content container
ImgLists ==
  {<<>>,
   <<ImgSrc(UrlA, <<"first">>)>>,
   <<ImgSrc(UrlA, <<"first">>), ImgNoAlt(UrlB)>>,
   <<ImgLazy(UrlA)>>,
   <<ImgNoAlt(<<"//", "cdn/r.png">>), ImgSrc(UrlR, <<"again">>)>>,
   <<ImgSrc(UrlA, <<"first">>), ImgSrc(UrlA, <<"second">>)>>,
   <<ImgNoAlt(<<"/", "local.png">>), ImgSrc(UrlB, <<>>)>>,
   <<ImgNoAlt(UrlAmp)>>,
   <<ImgNoAlt(<<"http", "-diagram.png">>)>>}

\* what stands in a content container next to its images
Prose ==
  <<Newline,
    P(<<"Some", " ", " ", "text">>),
    El("script", <<TextNode(<<"track()">>)>>),
    ElA("div", "class", <<"post-", "share", "-bar">>, <<P(<<"Share">>)>>),
    ElA("p", "class", <<"le", "ad-", "paragraph">>, <<TextNode(<<"Lead">>)>>),
    Element("a", ("href" :> <<"/tag/", "tech">>) @@ ("target" :> <<"_blank">>)
                   @@ ("onclick" :> <<"t()">>), <<TextNode(<<"Tech">>)>>),
    Element("div", ("data-tracking" :> <<"abc">>) @@ ("data-testid" :> <<"content">>)
                   @@ ("aria-label" :> <<"body">>), <<TextNode(<<"Kept">>)>>),
    El("div", <<El("span", <<TextNode(<<" ">>)>>)>>),
    El("blockquote", <<TextNode(<<"Quote">>),
                       El("button", <<TextNode(<<"Clap">>)>>),
                       El("em", <<El("b", <<>>)>>),
                       ElA("span", "role", <<"navigation">>, <<TextNode(<<"Next">>)>>)>>),
    Newline>>

Figure(imgs) == IF imgs = <<>> THEN <<>> ELSE <<El("figure", imgs)>>

\* pages that differ in where the content is and which images it holds; the
\* title stands outside the content container
H1(s) == El("h1", <<TextNode(s)>>)

ContentPage(shape, imgs) ==
  [head |-> <<>>,
   body |->
     CASE shape = "section" ->
            <<El("article", <<H1(<<"T">>), El("section", Prose \o Figure(imgs))>>)>>
       [] shape = "article" ->
            <<El("article", <<H1(<<"T">>)>> \o Prose \o Figure(imgs))>>
       [] shape = "field" ->
            <<H1(<<"T">>), ElA("div", "data-field", <<"body">>, Prose \o Figure(imgs))>>
       [] shape = "none" ->
            <<H1(<<"T">>), El("div", Prose \o Figure(imgs))>>
       [] shape = "emptied" ->
            <<H1(<<"T">>),
              El("article", <<El("script", <<TextNode(<<"x()">>)>>), El("nav", Figure(imgs)),
                              El("div", <<TextNode(<<" ">>)>>)>>)>>
       [] shape = "twoSections" ->
            <<El("article", <<H1(<<"T">>), El("section", Prose),
                              El("section", <<P(<<"More">>)>> \o Figure(imgs))>>)>>
       [] shape = "aside" ->
            <<El("article", <<H1(<<"T">>),
                              El("section", Prose \o <<El("aside", Figure(imgs))>>)>>)>>
       [] shape = "whitespace" ->
            <<H1(<<"T">>), El("article", <<Newline>>)>>]

Numerals ==
  <<"1", "2", "3", "4", "5", "6", "7", "8", "9", "10", "11", "12", "13",
   "14", "15", "16", "17", "18", "19", "20", "21", "22", "23", "24",
   "25", "26", "27", "28", "29", "30", "31", "32", "33", "34", "35",
   "36", "37", "38", "39", "40", "41", "42", "43", "44", "45", "46",
   "47", "48", "49", "50", "51", "52", "53", "54", "55", "56", "57",
   "58", "59", "60">>

\* more images than downloadAllImages takes
ManyImgs ==
  [i \in 1..Min(MAX_IMAGES_PER_ARTICLE + ExtraImages, Len(Numerals)) |->
     ImgNoAlt(<<"http", "s", ":", "//", "cdn/", Numerals[i]>>)]

ContentPages ==
  {ContentPage(shape, imgs) :
     shape \in {"section", "article", "field", "none", "emptied", "twoSections", "aside",
                "whitespace"},
     imgs \in ImgLists}
  \cup {ContentPage("section", ManyImgs)}

\* pages that differ in the paywall markers, the marketing phrases, the
\* length of the article text and the presence of a title
MarkerElement(marker) ==
  CASE marker = "none" -> <<>>
    [] marker = "testid" -> <<ElA("div", "data-testid", <<"paywall">>, <<TextNode(<<"Subscribe">>)>>)>>
    [] marker = "class" ->
         <<ElA("div", "class", <<"overlay", " ", "meteredContent">>, <<TextNode(<<"Subscribe">>)>>)>>
    [] marker = "id" ->
         <<ElA("div", "id", <<"my-", "paywall", "-box">>, <<TextNode(<<"Subscribe">>)>>)>>
    [] marker = "nearMiss" ->
         <<Element("div", ("class" :> <<"meteredContents">>) @@ ("data-testid" :> <<"paywalled">>),
                   <<TextNode(<<"Subscribe">>)>>)>>


PaywallPage(marker, phrase, inArticle, filler, titled) ==
  LET said == IF phrase = "" THEN <<>> ELSE <<phrase>>
  IN  [head |-> <<>>,
       body |->
         MarkerElement(marker)
         \o <<El("article",
                 <<Newline>> \o (IF titled THEN <<H1(<<"T">>)>> ELSE <<>>)
                 \o <<P(<<filler>> \o (IF inArticle THEN said ELSE <<>>)), Newline>>)>>
         \o (IF inArticle \/ phrase = "" THEN <<>> ELSE <<El("footer", <<P(said)>>)>>)]

PaywallPages ==
  {PaywallPage(m, ph, ia, f, t) :
     m \in {"none", "testid", "class", "id", "nearMiss"},
     ph \in {"", "Member-only story", "become a member", "Become A Member", "membership"},
     ia \in BOOLEAN,
     f \in {"x", "x498", "x499", "x500"},
     t \in BOOLEAN}

\* pages that differ in where the title and the author can be found
TitleElements(shape) ==
  CASE shape = "none" -> <<>>
    [] shape = "h1" -> <<H1(<<" ", "T", " ">>)>>
    [] shape = "blankH1ThenTestid" ->
         <<H1(<<" ">>), ElA("div", "data-testid", <<"storyTitle">>, <<TextNode(<<"T2">>)>>)>>
    [] shape = "testid" -> <<ElA("div", "data-testid", <<"storyTitle">>, <<TextNode(<<"T2">>)>>)>>
    [] shape = "blankH1" -> <<H1(<<" ", "\n">>)>>
    [] shape = "twoH1" -> <<H1(<<>>), H1(<<"T3">>)>>

AuthorMeta(shape) ==
  CASE shape = "meta" -> <<Element("meta", ("name" :> <<"author">>) @@ ("content" :> <<"A">>), <<>>)>>
    [] shape = "blankMetaThenRel" ->
         <<Element("meta", ("name" :> <<"author">>) @@ ("content" :> <<" ">>), <<>>)>>
    [] shape = "blankTestidThenMeta" ->
         <<Element("meta", ("name" :> <<"author">>) @@ ("content" :> <<"A", " ">>), <<>>)>>
    [] OTHER -> <<>>
AuthorElements(shape) ==
  CASE shape = "testid" -> <<ElA("span", "data-testid", <<"authorName">>, <<TextNode(<<"A1">>)>>)>>
    [] shape = "blankMetaThenRel" -> <<ElA("a", "rel", <<"author">>, <<TextNode(<<"A3">>)>>)>>
    [] shape = "rel" -> <<ElA("a", "rel", <<"author">>, <<TextNode(<<"A3">>)>>)>>
    [] shape = "blankTestidThenMeta" -> <<ElA("span", "data-testid", <<"authorName">>, <<TextNode(<<" ">>)>>)>>
    [] OTHER -> <<>>

MetadataPage(titleShape, authorShape) ==
  [head |-> AuthorMeta(authorShape),
   body |-> <<El("article",
                TitleElements(titleShape) \o AuthorElements(authorShape)
                \o <<P(<<"Body">>)>>)>>]

MetadataPages ==
  {MetadataPage(t, a) :
     t \in {"none", "h1", "blankH1ThenTestid", "testid", "blankH1", "twoH1"},
     a \in {"none", "testid", "meta", "blankMetaThenRel", "rel", "blankTestidThenMeta"}}

\* pages that differ in where the date of publication can be found: a time
\* element with or without a value in datetime, the article:published_time
\* meta element with or without content, both, or neither
DatePages ==
  LET Time(value) == <<ElA("time", "datetime", value, <<TextNode(<<"Jan 1">>)>>)>>
      Meta(value) == <<Element("meta", ("property" :> <<"article:published_time">>)
                                       @@ ("content" :> value), <<>>)>>
      Page(head, times) ==
        [head |-> head,
         body |-> <<El("article", <<H1(<<"T">>)>> \o times \o <<P(<<"Body">>)>>)>>]
  IN  {Page(head, times) :
         head \in {<<>>, Meta(<<"2023-05-05">>), Meta(<<>>)},
         times \in {<<>>, Time(<<"2024-01-01">>), Time(<<>>),
                    Time(<<>>) \o Time(<<"2024-02-02">>)}}

\* pages that differ in their tag elements: [data-testid="tag"] elements and
\* links to /tag/ pages, in either order, with texts that differ in case or
\* padding only, blank texts, texts of 49, 50 and 51 characters, and an
\* element that both selectors match
TagPages ==
  LET Chip(t) == ElA("span", "data-testid", <<"tag">>, <<TextNode(t)>>)
      Link(t) == ElA("a", "href", <<"/tag/", "t">>, <<TextNode(t)>>)
      Both(t) == Element("a", ("href" :> <<"/tag/", "t">>) @@ ("data-testid" :> <<"tag">>),
                         <<El("b", <<TextNode(t)>>), TextNode(<<"\n">>)>>)
      Page(tagElements) ==
        [head |-> <<>>,
         body |-> <<El("article", <<H1(<<"T">>), P(<<"Body">>)>> \o tagElements)>>]
  IN  {Page(tagElements) :
         tagElements \in
           {<<Chip(<<" ">>), Chip(<<>>), Link(<<"\n", " ">>)>>,
            <<Link(<<"Tech">>), Chip(<<"JavaScript">>), Chip(<<" ", "tech", "\n">>)>>,
            <<Chip(<<"Tech">>), Chip(<<"tech">>), Link(<<"Tech", " ", "News">>), Chip(<<"Tech">>)>>,
            <<Both(<<"JavaScript">>), Link(<<"javascript">>)>>,
            <<Chip(<<"x50">>), Link(<<"x49", "a">>)>>,
            <<Chip(<<" ", "x49", " ">>), Chip(<<"x49", " ", "a">>), Chip(<<"x49">>)>>}}

Pages == ContentPages \cup PaywallPages \cup MetadataPages \cup DatePages \cup TagPages

-----------------------------------------------------------------------------
(* The HTTP routes and the web client before any request *)

\* POST /scrape (routes/scraper.ts), POST /preview and POST /convert
\* (routes/convert.ts)
Routes == {"scrape", "preview", "convert"}

\* new Map(): no client has a record
NoCounts == [ip \in {} |-> [count |-> 0, resetAt |-> 0]]

\* no route handler has run
NoRequest ==
  [pc |-> "idle", route |-> "", ip |-> "",
   body |-> [json |-> "", url |-> [isString |-> FALSE, text |-> <<>>],
             urls |-> [isArray |-> FALSE, items |-> <<>>], format |-> "",
             title |-> [isString |-> FALSE, text |-> <<>>]],
   scraped |-> <<>>, articles |-> <<>>, generated |-> <<>>,
   thrown |-> [kind |-> "", code |-> "", message |-> <<>>],
   status |-> 0, answer |-> [success |-> FALSE, code |-> "", message |-> <<>>]]

\* the server as its modules have been loaded
InitRoutes ==
  /\ now = 0
  /\ limiters = [route \in Routes |-> NoCounts]
  /\ uncleaned = limiters
  /\ admitted = [route \in Routes |-> NoCounts]
  /\ request = NoRequest

\* the useState initial values of App
InitialApp ==
  [urls |-> 0, articles |-> 0, selectedUrls |-> {}, title |-> FALSE, format |-> "pdf",
   loading |-> "idle", errors |-> <<>>, saved |-> ""]

InitApp == app = InitialApp /\ pending = {}

-----------------------------------------------------------------------------
(* scrapeArticle *)

Stages ==
  <<"Idle", "Validated", "Fetched", "Parsed", "PaywallChecked",
    "MetadataExtracted", "ImagesResolved", "Sanitized", "Done">>
ErrorCodes ==
  {"INVALID_URL", "TIMEOUT", "NOT_FOUND", "PAYWALL", "NETWORK_ERROR", "PARSE_ERROR"}

NoHtml == [head |-> <<>>, body |-> <<TextNode(<<"<none>">>)>>]
NoDoc == TextNode(<<"<none>">>)
NoMetadata == [url |-> UnparsableUrl, title |-> Undefined, subtitle |-> Undefined,
               author |-> Undefined, publishedDate |-> Undefined,
               readingTime |-> Undefined, tags |-> NoTags]
NoArticle == [returned |-> FALSE]
NoSelector == Sel("", "", "", "", "")

IdleFetch == [pc |-> "idle", timer |-> "unset", gets |-> 0, net |-> "none", status |-> 0]

InitScrape ==
  /\ stage = "Idle"
  /\ error = NoError
  /\ pageFetch = IdleFetch
  /\ html = NoHtml
  /\ doc = NoDoc
  /\ metadata = NoMetadata
  /\ contentSelector = NoSelector
  /\ imageData = <<>>
  /\ downloads = <<>>
  /\ images = <<>>
  /\ content = <<>>
  /\ article = NoArticle

Init == url \in SampleUrls /\ InitScrape /\ InitRoutes /\ InitApp

\* throw new ScraperException(code, ...) out of scrapeArticle
Throw(code) == stage' = "Failed" /\ error' = code

\* validateMediumUrl(url)
Validate ==
  /\ stage = "Idle"
  /\ IF validateMediumUrl(url) = NoError
     THEN stage' = "Validated" /\ error' = error
     ELSE Throw(validateMediumUrl(url))
  /\ UNCHANGED <<serverVars, clientVars>>
  /\ UNCHANGED <<url, pageFetch, html, doc, metadata, contentSelector, imageData,
                 downloads, images, content, article>>

\* FetchStart with the request sent before the URL has been validated
FetchStartUnvalidated ==
  /\ stage \in {"Idle", "Validated"}
  /\ pageFetch.pc = "idle"
  /\ pageFetch' = [pageFetch EXCEPT !.pc = "awaitFetch", !.timer = "armed",
                                    !.gets = pageFetch.gets + 1]
  /\ UNCHANGED <<serverVars, clientVars>>
  /\ UNCHANGED <<url, stage, error, html, doc, metadata, contentSelector, imageData,
                 downloads, images, content, article>>

\* fetchHtml up to `await fetch(url, ...)`: the timer is set, the GET is sent
FetchStart ==
  /\ stage = "Validated"
  /\ pageFetch.pc = "idle"
  /\ pageFetch' = [pageFetch EXCEPT !.pc = "awaitFetch", !.timer = "armed",
                                    !.gets = pageFetch.gets + 1]
  /\ UNCHANGED <<serverVars, clientVars>>
  /\ UNCHANGED <<url, stage, error, html, doc, metadata, contentSelector, imageData,
                 downloads, images, content, article>>

\* statusError with the two status checks in the other order
statusErrorOkFirst(status) ==
  IF ~IsOk(status) THEN "NETWORK_ERROR"
  ELSE IF status = 404 THEN "NOT_FOUND"
  ELSE NoError

\* the two status checks of fetchHtml: the code thrown, or NoError
statusError(status) ==
  IF status = 404 THEN "NOT_FOUND"
  ELSE IF ~IsOk(status) THEN "NETWORK_ERROR"
  ELSE NoError

\* the response headers arrive: clearTimeout, the status checks, response.text()
PageResponds ==
  /\ pageFetch.pc = "awaitFetch"
  /\ \E status \in PageStatuses :
       /\ IF statusError(status) # NoError
          THEN /\ Throw(statusError(status))
               /\ pageFetch' = [pageFetch EXCEPT !.pc = "done", !.timer = "cleared",
                                                 !.net = "status", !.status = status]
          ELSE /\ UNCHANGED <<stage, error>>
               /\ pageFetch' = [pageFetch EXCEPT !.pc = "awaitText", !.timer = "cleared",
                                                 !.net = "status", !.status = status]
  /\ UNCHANGED <<serverVars, clientVars>>
  /\ UNCHANGED <<url, html, doc, metadata, contentSelector, imageData, downloads,
                 images, content, article>>

\* fetch rejects for a reason other than the abort: the catch block
PageFetchRejects ==
  /\ pageFetch.pc = "awaitFetch"
  /\ pageFetch' = [pageFetch EXCEPT !.pc = "done", !.timer = "cleared", !.net = "reject"]
  /\ Throw("NETWORK_ERROR")
  /\ UNCHANGED <<serverVars, clientVars>>
  /\ UNCHANGED <<url, html, doc, metadata, contentSelector, imageData, downloads,
                 images, content, article>>

\* the timer set by fetchHtml fires: controller.abort() rejects the pending
\* operation with an AbortError, which the catch block maps to TIMEOUT
PageTimerFires ==
  /\ pageFetch.timer = "armed"
  /\ pageFetch.pc \in {"awaitFetch", "awaitText"}
  /\ pageFetch' = [pageFetch EXCEPT !.pc = "done", !.timer = "fired", !.net = "abort"]
  /\ Throw("TIMEOUT")
  /\ UNCHANGED <<serverVars, clientVars>>
  /\ UNCHANGED <<url, html, doc, metadata, contentSelector, imageData, downloads,
                 images, content, article>>

\* response.text() resolves: fetchHtml returns the body
PageTextResolves ==
  /\ pageFetch.pc = "awaitText"
  /\ \E page \in Pages :
       /\ html' = page
       /\ pageFetch' = [pageFetch EXCEPT !.pc = "done", !.net = "text"]
       /\ stage' = "Fetched"
  /\ UNCHANGED <<serverVars, clientVars>>
  /\ UNCHANGED <<url, error, doc, metadata, contentSelector, imageData, downloads,
                 images, content, article>>

\* response.text() rejects (the connection breaks while the body is read)
PageTextRejects ==
  /\ pageFetch.pc = "awaitText"
  /\ pageFetch' = [pageFetch EXCEPT !.pc = "done", !.net = "textReject"]
  /\ Throw("NETWORK_ERROR")
  /\ UNCHANGED <<serverVars, clientVars>>
  /\ UNCHANGED <<url, html, doc, metadata, contentSelector, imageData, downloads,
                 images, content, article>>

\* Parse with the paywall check left out of scrapeArticle
ParseSkippingPaywall ==
  /\ stage = "Fetched"
  /\ doc' = load(html)
  /\ stage' = "PaywallChecked"
  /\ UNCHANGED <<serverVars, clientVars>>
  /\ UNCHANGED <<url, error, pageFetch, html, metadata, contentSelector, imageData,
                 downloads, images, content, article>>

\* const $ = cheerio.load(html)
Parse ==
  /\ stage = "Fetched"
  /\ doc' = load(html)
  /\ stage' = "Parsed"
  /\ UNCHANGED <<serverVars, clientVars>>
  /\ UNCHANGED <<url, error, pageFetch, html, metadata, contentSelector, imageData,
                 downloads, images, content, article>>

\* CheckPaywall with the title extracted before the paywall check
CheckPaywallAfterTitle ==
  /\ stage = "Parsed"
  /\ IF extractMetadataError(doc) # NoError
     THEN Throw(extractMetadataError(doc))
     ELSE IF checkPaywall(doc) = NoError
     THEN stage' = "PaywallChecked" /\ error' = error
     ELSE Throw(checkPaywall(doc))
  /\ UNCHANGED <<serverVars, clientVars>>
  /\ UNCHANGED <<url, pageFetch, html, doc, metadata, contentSelector, imageData,
                 downloads, images, content, article>>

\* checkPaywall($)
CheckPaywall ==
  /\ stage = "Parsed"
  /\ IF checkPaywall(doc) = NoError
     THEN stage' = "PaywallChecked" /\ error' = error
     ELSE Throw(checkPaywall(doc))
  /\ UNCHANGED <<serverVars, clientVars>>
  /\ UNCHANGED <<url, pageFetch, html, doc, metadata, contentSelector, imageData,
                 downloads, images, content, article>>

\* const metadata = extractMetadata($, url)
ExtractMetadata ==
  /\ stage = "PaywallChecked"
  /\ IF extractMetadataError(doc) = NoError
     THEN stage' = "MetadataExtracted" /\ error' = error /\ metadata' = extractMetadata(doc, url)
     ELSE Throw(extractMetadataError(doc)) /\ metadata' = metadata
  /\ UNCHANGED <<serverVars, clientVars>>
  /\ UNCHANGED <<url, pageFetch, html, doc, contentSelector, imageData, downloads,
                 images, content, article>>

\* the loop over CSS_SELECTORS.content, with its default 'article'
RECURSIVE resolveFrom(_, _)
resolveFrom(d, k) ==
  IF k > Len(ContentSelectors) THEN TagSel("article")
  ELSE IF select(d, ContentSelectors[k]) # <<>> THEN ContentSelectors[k]
  ELSE resolveFrom(d, k + 1)
resolveContentSelector(d) == resolveFrom(d, 1)

\* the selector is resolved, extractImages runs and downloadAllImages sends
\* one GET per image, all at once
StartDownloads ==
  /\ stage = "MetadataExtracted"
  /\ contentSelector = NoSelector
  /\ contentSelector' = resolveContentSelector(doc)
  /\ imageData' = extractImages(doc, contentSelector')
  /\ downloads' = [i \in 1..Len(limitedImageData(imageData')) |-> NewDownload]
  /\ UNCHANGED <<serverVars, clientVars>>
  /\ UNCHANGED <<url, stage, error, pageFetch, html, doc, metadata, images, content, article>>

Downloading == stage = "MetadataExtracted" /\ contentSelector # NoSelector

\* download i is one of those answered one by one
Interleaved(i) == Downloading /\ Len(downloads) <= MaxInterleaved /\ i \in 1..Len(downloads)

ImageResponds(i) ==
  /\ Interleaved(i)
  /\ downloads[i].pc = "awaitFetch"
  /\ \E resp \in ImageResponses :
       downloads' = settleIn(downloads, i, imageOnResponse(downloads[i], resp))
  /\ UNCHANGED <<serverVars, clientVars>>
  /\ UNCHANGED <<url, stage, error, pageFetch, html, doc, metadata, contentSelector,
                 imageData, images, content, article>>

ImageBodyArrives(i) ==
  /\ Interleaved(i)
  /\ downloads[i].pc = "awaitBody"
  /\ \E body \in ImageBodies :
       downloads' = settleIn(downloads, i, imageOnBody(downloads[i], body))
  /\ UNCHANGED <<serverVars, clientVars>>
  /\ UNCHANGED <<url, stage, error, pageFetch, html, doc, metadata, contentSelector,
                 imageData, images, content, article>>

\* fetch or arrayBuffer rejects
ImageRejects(i) ==
  /\ Interleaved(i)
  /\ downloads[i].pc \in {"awaitFetch", "awaitBody"}
  /\ downloads' = settleIn(downloads, i, imageOnReject(downloads[i]))
  /\ UNCHANGED <<serverVars, clientVars>>
  /\ UNCHANGED <<url, stage, error, pageFetch, html, doc, metadata, contentSelector,
                 imageData, images, content, article>>

\* ImageTimerFires with one AbortController shared by the downloads: the
\* timer of one download aborts every download still pending
ImageTimerFiresShared(i) ==
  /\ Interleaved(i)
  /\ downloads[i].timer = "armed"
  /\ downloads' = settleAll(downloads,
        [j \in 1..Len(downloads) |->
           IF j = i THEN imageOnTimer(downloads[j])
           ELSE IF downloads[j].pc # "settled" THEN returnUndefined(downloads[j], "aborted")
           ELSE downloads[j]],
        FALSE)
  /\ UNCHANGED <<serverVars, clientVars>>
  /\ UNCHANGED <<url, stage, error, pageFetch, html, doc, metadata, contentSelector,
                 imageData, images, content, article>>

\* the timer of download i fires: controller.abort() of that download
ImageTimerFires(i) ==
  /\ Interleaved(i)
  /\ downloads[i].timer = "armed"
  /\ downloads' = settleIn(downloads, i, imageOnTimer(downloads[i]))
  /\ UNCHANGED <<serverVars, clientVars>>
  /\ UNCHANGED <<url, stage, error, pageFetch, html, doc, metadata, contentSelector,
                 imageData, images, content, article>>

\* the downloads of a page with more than MaxInterleaved images: all are
\* answered together, all failing, all succeeding, or every second one, the
\* first of them first or the last of them first
ImagesAnswered ==
  /\ Downloading
  /\ Len(downloads) > MaxInterleaved
  /\ \A i \in 1..Len(downloads) : downloads[i].pc = "awaitFetch"
  /\ \E answer \in {"reject", "data", "alternate"}, backwards \in BOOLEAN :
       downloads' = settleAll(downloads,
          [i \in 1..Len(downloads) |->
             IF answer = "data" \/ (answer = "alternate" /\ i % 2 = 1)
             THEN imageOnBody(
                    imageOnResponse(downloads[i],
                       [ok |-> TRUE, contentType |-> <<"image/", "png">>, contentLength |-> Undefined]),
                    [byteLength |-> 3, bytes |-> "png"])
             ELSE imageOnReject(downloads[i])],
          backwards)
  /\ UNCHANGED <<serverVars, clientVars>>
  /\ UNCHANGED <<url, stage, error, pageFetch, html, doc, metadata, contentSelector,
                 imageData, images, content, article>>

\* the timers of those downloads, set in the same turn, fire together
ImageTimersFire ==
  /\ Downloading
  /\ Len(downloads) > MaxInterleaved
  /\ \E i \in 1..Len(downloads) : downloads[i].timer = "armed"
  /\ downloads' = settleAll(downloads,
        [i \in 1..Len(downloads) |->
           IF downloads[i].timer = "armed" THEN imageOnTimer(downloads[i]) ELSE downloads[i]],
        FALSE)
  /\ UNCHANGED <<serverVars, clientVars>>
  /\ UNCHANGED <<url, stage, error, pageFetch, html, doc, metadata, contentSelector,
                 imageData, images, content, article>>

\* Promise.all: it resolves once every download has settled, and rejects
\* with the error of a download that threw
Uncaught == "<uncaught>"
JoinDownloads ==
  /\ Downloading
  /\ IF \E i \in 1..Len(downloads) : downloads[i].pc = "threw"
     THEN Throw(Uncaught) /\ images' = images
     ELSE /\ \A i \in 1..Len(downloads) : downloads[i].pc = "settled"
          /\ images' = downloadResults(limitedImageData(imageData), downloads)
          /\ stage' = "ImagesResolved"
          /\ error' = error
  /\ UNCHANGED <<serverVars, clientVars>>
  /\ UNCHANGED <<url, pageFetch, html, doc, metadata, contentSelector, imageData,
                 downloads, content, article>>

\* the document with the src of every img whose src is the originalUrl of
\* a downloaded image replaced by the data URI of that image
RECURSIVE substituteImages(_, _)
substituteImages(node, imgs) ==
  LET downloaded == {i \in 1..Len(imgs) :
                       /\ imgs[i].base64 # Undefined
                       /\ imgs[i].originalUrl = attr(node, "src")}
      dataUri == imgs[CHOOSE i \in downloaded : TRUE].base64
  IN  IF node.tag = "img" /\ downloaded # {}
      THEN [node EXCEPT !.attrs = [n \in DOMAIN node.attrs |->
                                     IF n = "src" THEN dataUri ELSE node.attrs[n]]]
      ELSE [node EXCEPT !.kids = [i \in 1..Len(node.kids) |->
                                     substituteImages(node.kids[i], imgs)] \o <<>>]

\* Sanitize with the downloaded images substituted into the content
SanitizeSubstituting ==
  /\ stage = "ImagesResolved"
  /\ content' = cleanHtml(substituteImages(doc, images), contentSelector)
  /\ stage' = "Sanitized"
  /\ UNCHANGED <<serverVars, clientVars>>
  /\ UNCHANGED <<url, error, pageFetch, html, doc, metadata, contentSelector, imageData,
                 downloads, images, article>>

\* const content = cleanHtml($, contentSelector)
Sanitize ==
  /\ stage = "ImagesResolved"
  /\ content' = cleanHtml(doc, contentSelector)
  /\ doc' = documentAfterCleanHtml(doc, contentSelector)
  /\ stage' = "Sanitized"
  /\ UNCHANGED <<serverVars, clientVars>>
  /\ UNCHANGED <<url, error, pageFetch, html, metadata, contentSelector, imageData,
                 downloads, images, article>>

\* the Article scrapeArticle returns
buildArticle(meta, cleaned, imgs) ==
  [returned |-> TRUE, url |-> meta.url, title |-> meta.title, subtitle |-> meta.subtitle,
   author |-> meta.author, publishedDate |-> meta.publishedDate,
   readingTime |-> meta.readingTime, tags |-> meta.tags,
   content |-> cleaned, images |-> imgs]

\* if (!content) throw PARSE_ERROR; return {...metadata, content, images}
Finish ==
  /\ stage = "Sanitized"
  /\ IF content = <<>>
     THEN Throw("PARSE_ERROR") /\ article' = article
     ELSE stage' = "Done" /\ error' = error /\ article' = buildArticle(metadata, content, images)
  /\ UNCHANGED <<serverVars, clientVars>>
  /\ UNCHANGED <<url, pageFetch, html, doc, metadata, contentSelector, imageData,
                 downloads, images, content>>

ImageStep ==
  \E i \in 1..MaxInterleaved :
     ImageResponds(i) \/ ImageBodyArrives(i) \/ ImageRejects(i) \/ ImageTimerFires(i)

Next ==
  \/ Validate
  \/ FetchStart
  \/ PageResponds
  \/ PageFetchRejects
  \/ PageTimerFires
  \/ PageTextResolves
  \/ PageTextRejects
  \/ Parse
  \/ CheckPaywall
  \/ ExtractMetadata
  \/ StartDownloads
  \/ ImageStep
  \/ ImagesAnswered
  \/ ImageTimersFire
  \/ JoinDownloads
  \/ Sanitize
  \/ Finish

Spec == Init /\ [][Next]_vars

\* scrapeArticle has a step it can take without waiting for a server or a
\* timer: a synchronous stage, the start of the fetch, or the continuation
\* of Promise.all once every download has settled
ProgramReady ==
  \/ stage \in {"Idle", "Fetched", "Parsed", "PaywallChecked", "ImagesResolved", "Sanitized"}
  \/ stage = "Validated" /\ pageFetch.pc = "idle"
  \/ stage = "MetadataExtracted" /\ contentSelector = NoSelector
  \/ Downloading /\ \A i \in 1..Len(downloads) : downloads[i].pc \in {"settled", "threw"}

\* The event loop runs every ready continuation, so the call is never left
\* ready for ever, and an armed timer fires; when, and whether, a server
\* answers is up to the server.
FairSpec ==
  /\ Spec
  /\ []<>~ProgramReady
  /\ WF_vars(PageTimerFires)
  /\ WF_vars(ImageTimersFire)
  /\ \A i \in 1..MaxInterleaved : WF_vars(ImageTimerFires(i))

\* validateMediumUrl alone, on every URL of the bounded input space
InitValidate == url \in AllUrls /\ InitScrape /\ InitRoutes /\ InitApp
SpecValidate == InitValidate /\ [][Validate]_vars

-----------------------------------------------------------------------------
(* routes/scraper.ts, routes/convert.ts: the rate limiters *)

\* the clock moves in steps of TickMs, MaxTicks times
RATE_LIMIT_WINDOW_MS == 60 * 1000
RATE_LIMIT_MAX_REQUESTS == 10

\* the clock is observed at multiples of half a window, up to MaxTicks of them
TickMs == RATE_LIMIT_WINDOW_MS \div 2
MaxTicks == 3

\* convertRateLimiter.maxRequests, previewRateLimiter.maxRequests
maxRequests == [convert |-> 5, preview |-> 10]

\* what getClientIp returns: the first entry of x-forwarded-for, or
\* 'unknown' for a request without the header
ClientIps == {"203.0.113.7", "unknown"}

\* counts.set(ip, record)
setRecord(counts, ip, record) ==
  [i \in DOMAIN counts \cup {ip} |-> IF i = ip THEN record ELSE counts[i]]

\* checkRateLimit of routes/scraper.ts at Date.now() = t: what it returns
\* and what requestCounts holds afterwards
checkScrapeRateLimit(counts, ip, t) ==
  IF ip \notin DOMAIN counts \/ t >= counts[ip].resetAt
  THEN [admit |-> TRUE,
        counts |-> setRecord(counts, ip, [count |-> 1, resetAt |-> t + RATE_LIMIT_WINDOW_MS])]
  ELSE IF counts[ip].count >= RATE_LIMIT_MAX_REQUESTS
  THEN [admit |-> FALSE, counts |-> counts]
  ELSE [admit |-> TRUE, counts |-> [counts EXCEPT ![ip].count = @ + 1]]

\* checkRateLimit rejecting only above max
checkRateLimitAbove(counts, ip, max, t) ==
  IF ip \notin DOMAIN counts \/ t >= counts[ip].resetAt
  THEN [admit |-> TRUE,
        counts |-> setRecord(counts, ip, [count |-> 1, resetAt |-> t + RATE_LIMIT_WINDOW_MS])]
  ELSE IF counts[ip].count > max
  THEN [admit |-> FALSE, counts |-> counts]
  ELSE [admit |-> TRUE, counts |-> [counts EXCEPT ![ip].count = @ + 1]]

\* checkRateLimit of routes/convert.ts, for a limiter of max requests
checkRateLimit(counts, ip, max, t) ==
  IF ip \notin DOMAIN counts \/ t >= counts[ip].resetAt
  THEN [admit |-> TRUE,
        counts |-> setRecord(counts, ip, [count |-> 1, resetAt |-> t + RATE_LIMIT_WINDOW_MS])]
  ELSE IF counts[ip].count >= max
  THEN [admit |-> FALSE, counts |-> counts]
  ELSE [admit |-> TRUE, counts |-> [counts EXCEPT ![ip].count = @ + 1]]

\* the check a route makes when a request arrives
routeRateLimit(route, counts, ip, t) ==
  IF route = "scrape" THEN checkScrapeRateLimit(counts, ip, t)
  ELSE checkRateLimit(counts, ip, maxRequests[route], t)

\* the setInterval callbacks deleting every record of any age
cleanupAll(counts, t) == NoCounts

\* the body of the setInterval callbacks on one Map: the records whose
\* resetAt has been reached are deleted
cleanup(counts, t) ==
  [ip \in {i \in DOMAIN counts : ~(t >= counts[i].resetAt)} |-> counts[ip]]

\* the instants of log that share a window of RATE_LIMIT_WINDOW_MS with t
lastWindow(log, t) ==
  [ip \in DOMAIN log |->
     SelectSeq(log[ip], LAMBDA at : at + RATE_LIMIT_WINDOW_MS > t)]

\* Date.now() grows between two calls
Tick ==
  /\ now < MaxTicks * TickMs
  /\ now' = now + TickMs
  /\ admitted' = [route \in Routes |-> lastWindow(admitted[route], now')]
  /\ UNCHANGED <<limiters, uncleaned, request, scrapeVars, clientVars>>

\* the timer of routes/scraper.ts fires
CleanupScrape ==
  /\ limiters' = [limiters EXCEPT !.scrape = cleanup(@, now)]
  /\ limiters' # limiters
  /\ UNCHANGED <<now, uncleaned, admitted, request, scrapeVars, clientVars>>

\* the timer of routes/convert.ts fires
CleanupConvert ==
  /\ limiters' = [limiters EXCEPT !.convert = cleanup(@, now), !.preview = cleanup(@, now)]
  /\ limiters' # limiters
  /\ UNCHANGED <<now, uncleaned, admitted, request, scrapeVars, clientVars>>

\* a response of the route handler
respond(req, status, success, code, message) ==
  [req EXCEPT !.pc = "responded", !.status = status,
              !.answer = [success |-> success, code |-> code, message |-> message]]

\* a request reaches a route: the handler runs up to `await c.req.json()`
RequestArrives(route) ==
  /\ \E ip \in ClientIps :
       LET checked == routeRateLimit(route, limiters[route], ip, now)
           started == [NoRequest EXCEPT !.route = route, !.ip = ip]
       IN  /\ limiters' = [limiters EXCEPT ![route] = checked.counts]
           /\ uncleaned' = [uncleaned EXCEPT ![route] =
                              routeRateLimit(route, @, ip, now).counts]
           /\ admitted' =
                IF checked.admit
                THEN [admitted EXCEPT ![route] =
                        setRecord(@, ip, IF ip \in DOMAIN @ THEN Append(@[ip], now)
                                         ELSE <<now>>)]
                ELSE admitted
           /\ request' =
                IF checked.admit THEN [started EXCEPT !.pc = "awaitJson"]
                ELSE respond(started, 429, FALSE,
                             IF route = "scrape" THEN "NETWORK_ERROR" ELSE "RATE_LIMIT",
                             <<"Rate limit exceeded. Please try again later.">>)
  /\ UNCHANGED <<now, scrapeVars, clientVars>>

-----------------------------------------------------------------------------
(* routes/scraper.ts, routes/convert.ts: the route handlers *)

\* Inputs: the bodies clients send.  json says whether the body is no JSON
\* ("invalid"), the JSON null or an object; a value of the object is a
\* string with its text or something else
Bodies(route) ==
  LET Str(chars) == [isString |-> TRUE, text |-> chars]
      NotAString == [isString |-> FALSE, text |-> <<>>]
      A == Str(<<"https://medium.com/a">>)
      B == Str(<<"https://medium.com/b">>)
      Blank == Str(<<" ">>)
      Array(items) == [isArray |-> TRUE, items |-> items]
      NotAnArray == [isArray |-> FALSE, items |-> <<>>]
      Body(json, u, urls, format, title) ==
        [json |-> json, url |-> u, urls |-> urls, format |-> format, title |-> title]
      UrlLists ==
        {NotAnArray, Array(<<>>), Array(<<A>>), Array(<<A, B>>), Array(<<B, A>>),
         Array(<<A, A>>), Array(<<A, Blank>>), Array(<<NotAString, A>>),
         Array([i \in 1..10 |-> IF i = 7 THEN B ELSE A]), Array([i \in 1..11 |-> A])}
      Unread(json) == Body(json, NotAString, NotAnArray, "", NotAString)
  IN  CASE route = "scrape" ->
             {Unread("invalid"), Unread("null")}
             \cup {Body("object", u, NotAnArray, "", NotAString) : u \in {NotAString, Blank, A}}
        [] route = "preview" ->
             {Unread("invalid"), Unread("null")}
             \cup {Body("object", NotAString, urls, "", NotAString) : urls \in UrlLists}
        [] route = "convert" ->
             {Unread("invalid"), Unread("null")}
             \cup {Body("object", NotAString, urls, "pdf", Str(<<"Book">>)) : urls \in UrlLists}
             \cup {Body("object", NotAString, Array(<<A, B>>), format, title) :
                     format \in {"pdf", "epub", "txt"},
                     title \in {Str(<<"Book">>), Blank, NotAString}}

\* Inputs: how a call of scrapeArticle ends: with an Article, with a
\* ScraperException, or with another error
ScrapeOutcomes ==
  {[kind |-> "Article", code |-> "", message |-> <<>>], 
   [kind |-> "Error", code |-> "", message |-> <<"boom">>]}
  \cup {[kind |-> "ScraperException", code |-> code, message |-> <<"scraper: ", code>>] :
          code \in ErrorCodes}

\* pdf-generator/types.ts: GeneratorErrorCode
GeneratorErrorCodes ==
  {"INVALID_INPUT", "EMPTY_ARTICLES", "TOO_MANY_ARTICLES", "CONTENT_TOO_LARGE",
   "RENDER_ERROR", "TIMEOUT"}

\* Inputs: how a call of generatePdf or generateEpub ends
GeneratorOutcomes ==
  {[kind |-> "Buffer", code |-> "", message |-> <<>>],
   [kind |-> "Error", code |-> "", message |-> <<"boom">>]}
  \cup {[kind |-> "GeneratorException", code |-> code, message |-> <<"generator: ", code>>] :
          code \in GeneratorErrorCodes}

\* validateUrls of routes/convert.ts: the error, or none when valid
validateUrls(urls) ==
  IF ~urls.isArray THEN <<"urls must be an array">>
  ELSE IF Len(urls.items) = 0 THEN <<"urls array cannot be empty">>
  ELSE IF Len(urls.items) > 10 THEN <<"Maximum 10 URLs allowed per request">>
  ELSE IF \E i \in 1..Len(urls.items) :
             ~urls.items[i].isString \/ trim(urls.items[i].text) = <<>>
  THEN <<"Each URL must be a non-empty string">>
  ELSE <<>>

\* the switch of the catch block of POST /scrape
scrapeErrorStatus(code) ==
  CASE code = "INVALID_URL" -> 400
    [] code = "NOT_FOUND" -> 404
    [] code = "PAYWALL" -> 403
    [] code = "TIMEOUT" -> 504
    [] OTHER -> 500

\* getHttpStatusForError with TIMEOUT left to the default
getHttpStatusForErrorDefaulting(code) ==
  IF code = "INVALID_URL" THEN 400
  ELSE IF code = "NOT_FOUND" THEN 404
  ELSE IF code = "PAYWALL" THEN 403
  ELSE IF code \in {"INVALID_INPUT", "EMPTY_ARTICLES", "TOO_MANY_ARTICLES", "CONTENT_TOO_LARGE"}
  THEN 400
  ELSE 500

\* getHttpStatusForError of routes/convert.ts
getHttpStatusForError(code) ==
  IF code = "INVALID_URL" THEN 400
  ELSE IF code = "NOT_FOUND" THEN 404
  ELSE IF code = "PAYWALL" THEN 403
  ELSE IF code = "INVALID_INPUT" THEN 400
  ELSE IF code = "EMPTY_ARTICLES" THEN 400
  ELSE IF code = "TOO_MANY_ARTICLES" THEN 400
  ELSE IF code = "CONTENT_TOO_LARGE" THEN 400
  ELSE IF code = "TIMEOUT" THEN 504
  ELSE 500

\* the response of the last catch branch of the three handlers
unexpectedError(req) ==
  respond(req, 500, FALSE, "NETWORK_ERROR", <<"An unexpected error occurred">>)

\* the URLs the handler scrapes, in the order of its loop
requestUrls(req) ==
  IF req.route = "scrape" THEN <<req.body.url.text>>
  ELSE [i \in 1..Len(req.body.urls.items) |-> req.body.urls.items[i].text]

\* scrapeArticle(url) is called with the k-th URL of the request
callScrapeArticle(req, k) ==
  [req EXCEPT !.pc = "awaitScrape", !.scraped = Append(@, requestUrls(req)[k])]

\* the handler from the arrival of the body to its first scrapeArticle call
onBody(req, body) ==
  LET read == [req EXCEPT !.body = body]
      invalid(message) == respond(read, 400, FALSE, "INVALID_INPUT", message)
  IN  IF req.route = "scrape"
      THEN (IF body.json # "object" \/ ~body.url.isString
            THEN respond(read, 400, FALSE, "INVALID_URL",
                         <<"Request body must contain a valid \"url\" string">>)
            ELSE IF trim(body.url.text) = <<>>
            THEN respond(read, 400, FALSE, "INVALID_URL", <<"URL cannot be empty">>)
            ELSE callScrapeArticle(read, 1))
      ELSE IF body.json = "invalid" THEN invalid(<<"Invalid JSON body">>)
      ELSE IF body.json = "null" THEN unexpectedError(read)   \* destructuring null throws
      ELSE IF validateUrls(body.urls) # <<>> THEN invalid(validateUrls(body.urls))
      ELSE IF req.route = "preview" THEN callScrapeArticle(read, 1)
      ELSE IF body.format \notin {"pdf", "epub"}
      THEN invalid(<<"format must be \"pdf\" or \"epub\"">>)
      ELSE IF ~body.title.isString \/ trim(body.title.text) = <<>>
      THEN invalid(<<"options.title is required">>)
      ELSE callScrapeArticle(read, 1)

\* onScrapeSettled calling the generator after every article it pushes
onScrapeSettledEager(req, outcome) ==
  LET settled == [req EXCEPT !.thrown = outcome]
      k == Len(req.scraped)
      articles == Append(req.articles, [url |-> requestUrls(req)[k], call |-> k])
      pushed == [settled EXCEPT !.articles = articles,
                                !.generated = Append(@, [format |-> req.body.format,
                                                         articles |-> articles])]
  IN  IF outcome.kind = "ScraperException"
      THEN respond(settled, getHttpStatusForError(outcome.code), FALSE,
                   outcome.code, outcome.message)
      ELSE IF outcome.kind = "Error" THEN unexpectedError(settled)
      ELSE IF k < Len(requestUrls(req)) THEN callScrapeArticle(pushed, k + 1)
      ELSE [pushed EXCEPT !.pc = "awaitGenerator"]

\* the handler from the settling of a scrapeArticle call to its next await
\* or its response
onScrapeSettled(req, outcome) ==
  LET settled == [req EXCEPT !.thrown = outcome]
      k == Len(req.scraped)
      articles == Append(req.articles, [url |-> requestUrls(req)[k], call |-> k])
      pushed == [settled EXCEPT !.articles = articles]
  IN  IF outcome.kind = "ScraperException"
      THEN respond(settled,
                   IF req.route = "scrape" THEN scrapeErrorStatus(outcome.code)
                   ELSE getHttpStatusForError(outcome.code),
                   FALSE, outcome.code, outcome.message)
      ELSE IF outcome.kind = "Error" THEN unexpectedError(settled)
      ELSE IF k < Len(requestUrls(req)) THEN callScrapeArticle(pushed, k + 1)
      ELSE IF req.route = "convert"
      THEN [pushed EXCEPT !.pc = "awaitGenerator",
                          !.generated = Append(@, [format |-> req.body.format,
                                                   articles |-> articles])]
      ELSE respond(pushed, 200, TRUE, "", <<>>)

\* POST /convert from the settling of generatePdf or generateEpub
onGeneratorSettled(req, outcome) ==
  LET settled == [req EXCEPT !.thrown = outcome]
  IN  IF outcome.kind = "GeneratorException"
      THEN respond(settled, getHttpStatusForError(outcome.code), FALSE,
                   outcome.code, outcome.message)
      ELSE IF outcome.kind = "Error" THEN unexpectedError(settled)
      ELSE respond(settled, 200, TRUE, "", <<>>)

\* c.req.json() settles
BodyParsed ==
  /\ request.pc = "awaitJson"
  /\ \E body \in Bodies(request.route) : request' = onBody(request, body)
  /\ UNCHANGED <<now, limiters, uncleaned, admitted, scrapeVars, clientVars>>

\* the scrapeArticle call the handler awaits settles
ScrapeSettles ==
  /\ request.pc = "awaitScrape"
  /\ \E outcome \in ScrapeOutcomes : request' = onScrapeSettled(request, outcome)
  /\ UNCHANGED <<now, limiters, uncleaned, admitted, scrapeVars, clientVars>>

\* the generator call POST /convert awaits settles
GeneratorSettles ==
  /\ request.pc = "awaitGenerator"
  /\ \E outcome \in GeneratorOutcomes : request' = onGeneratorSettled(request, outcome)
  /\ UNCHANGED <<now, limiters, uncleaned, admitted, scrapeVars, clientVars>>

\* the limiters after n requests of one client to every route at instant 0
afterRequests(n) ==
  /\ now = 0
  /\ limiters = [route \in Routes |->
       IF n = 0 THEN NoCounts
       ELSE setRecord(NoCounts, "203.0.113.7",
              [count |-> Min(n, IF route = "scrape" THEN RATE_LIMIT_MAX_REQUESTS
                                ELSE maxRequests[route]),
               resetAt |-> RATE_LIMIT_WINDOW_MS])]
  /\ uncleaned = limiters
  /\ admitted = [route \in Routes |->
       [ip \in DOMAIN limiters[route] |-> [i \in 1..limiters[route][ip].count |-> 0]]]

\* One request, from its arrival to its response, at a server that is
\* fresh or has just served a burst of one client
InitRoutesSpec ==
  /\ url = UnparsableUrl /\ InitScrape /\ InitApp
  /\ \E n \in {0, RATE_LIMIT_MAX_REQUESTS} : afterRequests(n)
  /\ request = NoRequest

NextRoutes ==
  \/ request.pc = "idle" /\ RequestArrives("scrape")
  \/ request.pc = "idle" /\ RequestArrives("preview")
  \/ request.pc = "idle" /\ RequestArrives("convert")
  \/ BodyParsed
  \/ ScrapeSettles
  \/ GeneratorSettles

SpecRoutes == InitRoutesSpec /\ [][NextRoutes]_vars

\* The requests of two clients to one route, with the clock and the cleanup
\* timers.  The timers fire every five minutes from the loading of the
\* modules, an instant the clients know nothing of: here they fire at any
\* instant.
InitLimiter ==
  /\ url = UnparsableUrl /\ InitScrape /\ InitApp
  /\ afterRequests(0)
  /\ \E route \in Routes : request = [NoRequest EXCEPT !.route = route]

NextLimiter ==
  \/ Tick
  \/ CleanupScrape
  \/ CleanupConvert
  \/ request.route = "scrape" /\ RequestArrives("scrape")
  \/ request.route = "preview" /\ RequestArrives("preview")
  \/ request.route = "convert" /\ RequestArrives("convert")

SpecLimiter == InitLimiter /\ [][NextLimiter]_vars

-----------------------------------------------------------------------------
(* client App.tsx: the App component and the user *)

\* the API requests in flight the model follows at once
MaxInFlight == 2

\* Inputs: the numbers of non-empty lines the user leaves in the textarea
UrlCounts == {0, 1, 2, 11}

\* Inputs: how previewUrls and convertToEbook settle
ApiOutcomes ==
  {[ok |-> TRUE, code |-> ""], [ok |-> FALSE, code |-> "RATE_LIMIT"],
   [ok |-> FALSE, code |-> "NETWORK_ERROR"]}

\* the computed state of a render
isLoading == app.loading # "idle"
hasArticles == app.articles > 0
canGenerate == app.selectedUrls # {} /\ app.title

\* validateUrls of App.tsx on the parsed lines: the error, or none
validateUrlList(n) ==
  IF n = 0 \/ n > 10 THEN <<"INVALID_INPUT">> ELSE <<>>

\* a request leaves the browser
send(kind, urls) ==
  pending \cup
    {[id |-> CHOOSE i \in 1..MaxInFlight : \A p \in pending : p.id # i,
      kind |-> kind, urls |-> urls,
      format |-> IF kind = "generate" THEN app.format ELSE "",
      title |-> kind = "generate" /\ app.title]}

\* the user edits the textarea (disabled while loading)
EditUrls ==
  /\ ~isLoading
  /\ \E n \in UrlCounts : app' = [app EXCEPT !.urls = n]
  /\ app' # app
  /\ UNCHANGED <<pending, scrapeVars, serverVars>>

\* the user edits the title or picks a format (shown with articles,
\* disabled while loading)
EditOptions ==
  /\ hasArticles /\ ~isLoading
  /\ \E title \in BOOLEAN, format \in {"pdf", "epub"} :
       app' = [app EXCEPT !.title = title, !.format = format]
  /\ app' # app
  /\ UNCHANGED <<pending, scrapeVars, serverVars>>

\* handleToggleArticle, handleSelectAll, handleDeselectAll: the checkboxes
\* and the bulk controls are shown with articles and never disabled
ChangeSelection ==
  /\ hasArticles
  /\ \/ \E i \in 1..app.articles :
          app' = [app EXCEPT !.selectedUrls =
                    IF i \in @ THEN @ \ {i} ELSE @ \cup {i}]
     \/ app' = [app EXCEPT !.selectedUrls = 1..app.articles]
     \/ app' = [app EXCEPT !.selectedUrls = {}]
  /\ app' # app
  /\ UNCHANGED <<pending, scrapeVars, serverVars>>

\* handleDismissErrors, from the ErrorAlert shown with errors
DismissErrors ==
  /\ app.errors # <<>>
  /\ app' = [app EXCEPT !.errors = <<>>]
  /\ UNCHANGED <<pending, scrapeVars, serverVars>>

\* handlePreview up to its await, from a PreviewButton that is disabled
\* while loading
ClickPreview ==
  /\ ~(isLoading \/ app.loading = "preview")
  /\ Cardinality(pending) < MaxInFlight
  /\ IF validateUrlList(app.urls) # <<>>
     THEN /\ app' = [app EXCEPT !.errors = validateUrlList(app.urls)]
          /\ pending' = pending
     ELSE /\ app' = [app EXCEPT !.errors = <<>>, !.loading = "preview"]
          /\ pending' = send("preview", 1..app.urls)
  /\ UNCHANGED <<scrapeVars, serverVars>>

\* handleGenerate up to its await, from a GenerateButton that is shown with
\* articles and disabled by !canGenerate or its own loading
ClickGenerate ==
  /\ hasArticles
  /\ ~(~canGenerate \/ app.loading = "generate")
  /\ Cardinality(pending) < MaxInFlight
  /\ app' = [app EXCEPT !.errors = <<>>, !.loading = "generate"]
  /\ pending' = send("generate", app.selectedUrls)
  /\ UNCHANGED <<scrapeVars, serverVars>>

\* handlePreview from the settling of previewUrls: try, catch and finally
PreviewSettles ==
  /\ \E p \in pending, outcome \in ApiOutcomes :
       /\ p.kind = "preview"
       /\ pending' = pending \ {p}
       /\ app' = IF outcome.ok
                 THEN [app EXCEPT !.articles = Cardinality(p.urls),
                                  !.selectedUrls = p.urls, !.loading = "idle"]
                 ELSE [app EXCEPT !.errors = <<outcome.code>>, !.loading = "idle"]
  /\ UNCHANGED <<scrapeVars, serverVars>>

\* handleGenerate from the settling of convertToEbook: downloadFile or the
\* catch, then finally
GenerateSettles ==
  /\ \E p \in pending, outcome \in ApiOutcomes :
       /\ p.kind = "generate"
       /\ pending' = pending \ {p}
       /\ app' = IF outcome.ok
                 THEN [app EXCEPT !.saved = p.format, !.loading = "idle"]
                 ELSE [app EXCEPT !.errors = <<outcome.code>>, !.loading = "idle"]
  /\ UNCHANGED <<scrapeVars, serverVars>>

InitClient ==
  /\ url = UnparsableUrl /\ InitScrape /\ InitRoutes /\ InitApp

NextClient ==
  \/ EditUrls
  \/ EditOptions
  \/ ChangeSelection
  \/ DismissErrors
  \/ ClickPreview
  \/ ClickGenerate
  \/ PreviewSettles
  \/ GenerateSettles

SpecClient == InitClient /\ [][NextClient]_vars

-----------------------------------------------------------------------------
(* Properties *)

\* the private IPv4 ranges: 127/8, 10/8, 172.16/12, 192.168/16, 169.254/16, 0/8
C1_PrivateRange(a, b) ==
  \/ a \in {127, 10, 0}
  \/ a = 172 /\ b \in 16..31
  \/ a = 192 /\ b = 168
  \/ a = 169 /\ b = 254
C1_PrivateHost(h) ==
  \/ h \in {<<"localhost">>, <<"localhost", "localdomain">>, <<"::1">>, <<"[::1]">>}
  \/ /\ Len(h) = 4
     /\ \A i \in 1..4 : h[i] \in DOMAIN DigitLabels
     /\ C1_PrivateRange(DigitLabels[h[1]], DigitLabels[h[2]])
\* h is d, or some labels and a dot in front of d, for an allow-listed d
C1_AllowListed(h) ==
  \E k \in 1..Len(MEDIUM_DOMAINS), n \in 0..Len(h) :
     SubSeq(h, n + 1, Len(h)) = MEDIUM_DOMAINS[k]
C1_Accepts(u) ==
  /\ u.parses
  /\ ~C1_PrivateHost(toLowerCase(u.hostname))
  /\ u.protocol = "https:"
  /\ C1_AllowListed(toLowerCase(u.hostname))

\* C1: validateMediumUrl accepts a URL exactly when it parses, its
\* lower-cased hostname is not a private host, its scheme is https and the
\* hostname is an allow-listed domain or a subdomain of one; every
\* rejection carries INVALID_URL.
C1_ValidateAccepts ==
  stage # "Idle" =>
    /\ (stage = "Validated" /\ error = NoError) <=> C1_Accepts(url)
    /\ ~C1_Accepts(url) => (stage = "Failed" /\ error = "INVALID_URL")
    /\ (url.parses /\ C1_PrivateHost(toLowerCase(url.hostname))) => error = "INVALID_URL"
    /\ url.protocol = "http:" => error = "INVALID_URL"

\* a subdomain of an allow-listed domain has been accepted
C1_Witness ==
  /\ stage = "Validated"
  /\ url = MkUrl("https:", <<"user", "medium", "com">>)

\* C2: no fetch, of the page or of an image, is started before
\* validateMediumUrl has returned successfully; a URL that fails validation
\* ends in INVALID_URL with no request made.
C2_NoFetchBeforeValidation ==
  /\ (pageFetch.gets > 0 \/ pageFetch.pc # "idle" \/ downloads # <<>>) =>
       (stage # "Idle" /\ C1_Accepts(url))
  /\ (~C1_Accepts(url) /\ stage # "Idle") =>
       /\ stage = "Failed" /\ error = "INVALID_URL"
       /\ pageFetch = IdleFetch /\ downloads = <<>>

\* https://127.0.0.1/... has failed with INVALID_URL and no GET was sent
C2_Witness ==
  /\ url = MkUrl("https:", <<"127", "0", "0", "1">>)
  /\ stage = "Failed" /\ error = "INVALID_URL"
  /\ pageFetch.gets = 0

\* the code read off the outcome of the fetch
C3_Code ==
  CASE pageFetch.net = "abort" -> "TIMEOUT"
    [] pageFetch.net = "status" /\ pageFetch.status = 404 -> "NOT_FOUND"
    [] OTHER -> "NETWORK_ERROR"

\* C3: fetchHtml sends one GET and never a second; 404 gives NOT_FOUND,
\* another status outside 200..299 NETWORK_ERROR, the abort by the timer
\* TIMEOUT, any other failure of the transport or of reading the body
\* NETWORK_ERROR, and an ok status with a readable body the body text.
C3_FetchOutcome ==
  /\ pageFetch.gets <= 1
  /\ pageFetch.pc # "idle" => pageFetch.gets = 1
  /\ pageFetch.pc \in {"awaitFetch", "awaitText"} => (stage = "Validated" /\ error = NoError)
  /\ pageFetch.pc = "awaitText" => pageFetch.status \in 200..299
  /\ pageFetch.pc = "done" =>
       IF pageFetch.net = "text"
       THEN /\ pageFetch.status \in 200..299
            /\ html \in Pages
            /\ error \notin {"NOT_FOUND", "TIMEOUT", "NETWORK_ERROR", "INVALID_URL"}
       ELSE /\ pageFetch.net \in {"status", "reject", "abort", "textReject"}
            /\ pageFetch.net = "status" => pageFetch.status \notin 200..299
            /\ stage = "Failed"
            /\ error = C3_Code
            /\ html = NoHtml

\* the body could not be read after an ok status
C3_Witness ==
  /\ pageFetch.net = "textReject"
  /\ pageFetch.status = 200
  /\ stage = "Failed" /\ error = "NETWORK_ERROR"

\* C4: every call of scrapeArticle ends, returning an Article or throwing,
\* whatever the servers do.
C4_Terminates == <>(stage \in {"Done", "Failed"})

StageIndex(s) == CHOOSE i \in 1..Len(Stages) : Stages[i] = s
C5_Step ==
  /\ stage \in {"Done", "Failed"} => UNCHANGED <<stage, error, article>>
  /\ stage' # stage =>
       IF stage' = "Failed"
       THEN error = NoError /\ error' \in ErrorCodes
       ELSE /\ stage' \in {Stages[i] : i \in 1..Len(Stages)}
            /\ StageIndex(stage') = StageIndex(stage) + 1
            /\ error' = NoError
  /\ article' # article => (stage' = "Done" /\ stage = "Sanitized")

\* C5: the stages are passed in the order Idle, Validated, Fetched, Parsed,
\* PaywallChecked, MetadataExtracted, ImagesResolved, Sanitized, Done, one
\* at a time; the only other step is to Failed with one of the six codes;
\* Done and Failed are never left, and an Article exists in Done only.
C5_StageOrder ==
  /\ [](article.returned <=> stage = "Done")
  /\ [](stage = "Failed" <=> error # NoError)
  /\ [][C5_Step]_vars

\* a call has passed every stage and returned its Article
C5_Witness ==
  /\ stage = "Done"
  /\ article.returned
  /\ article.images # <<>>

C7_Marker(d) == \E k \in 1..Len(PaywallSelectors) : select(d, PaywallSelectors[k]) # <<>>
C7_Phrase(d) ==
  LET bodyText == toLowerCase(text(select(d, TagSel("body"))))
  IN  includes(bodyText, "member-only story") \/ includes(bodyText, "become a member")
C7_ShortArticle(d) == length(trim(text(select(d, TagSel("article"))))) < 500
C7_Paywalled(d) == C7_Marker(d) \/ (C7_Phrase(d) /\ C7_ShortArticle(d))

\* no title selector yields text
C8_NoTitle(d) ==
  \A k \in 1..Len(TitleSelectors) :
     LET matched == select(d, TitleSelectors[k])
     IN  matched = <<>> \/ trim(textOf(matched[1])) = <<>>
\* the content selector matches nothing, or what it matches sanitizes to ''
C8_NoContent(d) ==
  \/ select(d, resolveContentSelector(d)) = <<>>
  \/ cleanHtml(d, resolveContentSelector(d)) = <<>>

\* the error of the earliest stage the call fails in
C6_Expected ==
  IF ~C1_Accepts(url) THEN "INVALID_URL"
  ELSE IF pageFetch.net # "text" THEN C3_Code
  ELSE IF C7_Paywalled(load(html)) THEN "PAYWALL"
  ELSE "PARSE_ERROR"

\* C6: a failed call reports the error of the earliest failing stage in
\* the order validation, fetch, paywall, metadata, content; a page with a
\* paywall marker and no title fails with PAYWALL.
C6_EarliestError ==
  /\ stage = "Failed" => error = C6_Expected
  /\ (doc # NoDoc /\ stage # "Parsed" /\ C7_Marker(doc) /\ C8_NoTitle(doc)) =>
       (stage = "Failed" /\ error = "PAYWALL")

\* a page with a paywall marker and no title has failed
C6_Witness ==
  /\ html = PaywallPage("testid", "", FALSE, "x", FALSE)
  /\ C8_NoTitle(doc)
  /\ stage = "Failed" /\ error = "PAYWALL"

\* C7: checkPaywall fails with PAYWALL exactly when a paywall marker
\* matches, or the body text holds a marketing phrase and the trimmed
\* article text is shorter than 500 characters; a phrase with 500
\* characters of article text passes, with 499 it fails.
C7_PaywallIff ==
  (doc # NoDoc /\ stage # "Parsed") =>
    /\ (stage = "Failed" /\ error = "PAYWALL") <=> C7_Paywalled(doc)
    /\ html = PaywallPage("none", "become a member", FALSE, "x499", TRUE) => error # "PAYWALL"
    /\ html = PaywallPage("none", "become a member", FALSE, "x498", TRUE) => error = "PAYWALL"
    /\ html = PaywallPage("class", "", FALSE, "x500", TRUE) => error = "PAYWALL"

\* a marketing phrase next to an article text of exactly 500 characters
C7_Witness ==
  /\ html = PaywallPage("none", "become a member", FALSE, "x499", TRUE)
  /\ length(trim(text(select(doc, TagSel("article"))))) = 500
  /\ stage = "PaywallChecked"

\* no author selector yields a value
C8_NoAuthor(d) ==
  \A k \in 1..Len(AuthorSelectors) :
     LET matched == select(d, AuthorSelectors[k])
     IN  \/ matched = <<>>
         \/ IF AuthorSelectors[k].tag = "meta"
            THEN trim(IF "content" \in DOMAIN matched[1].attrs
                      THEN matched[1].attrs["content"] ELSE <<>>) = <<>>
            ELSE trim(textOf(matched[1])) = <<>>

\* C8: a returned Article has a non-empty title, a non-empty author that
\* is 'Unknown Author' when no author selector yields a value, non-empty
\* content and at most 50 images; with no title, or with no or empty
\* content, the call fails with PARSE_ERROR and returns nothing.
C8_ArticleWellFormed ==
  /\ article.returned =>
       /\ article.title # Undefined /\ length(article.title) > 0
       /\ article.author # Undefined /\ length(article.author) > 0
       /\ C8_NoAuthor(doc) => article.author = UnknownAuthor
       /\ article.content # <<>> /\ \E a \in 1..Len(article.content) : CharLen(article.content[a]) > 0
       /\ article.content = content
       /\ Len(article.images) <= 50
       /\ ~C8_NoTitle(doc)
       /\ select(doc, contentSelector) # <<>>
  /\ (stage = "Failed" /\ doc # NoDoc /\ error # "PAYWALL") =>
       /\ error = "PARSE_ERROR"
       /\ ~article.returned
       /\ C8_NoTitle(doc) \/ C8_NoContent(doc)
  /\ (stage = "Sanitized" /\ content = <<>>) => C8_NoContent(doc)
  /\ (doc # NoDoc /\ stage \notin {"Parsed", "Failed"}) => ~C7_Paywalled(doc)
  /\ (doc # NoDoc /\ stage \notin {"Parsed", "PaywallChecked", "Failed"}) => ~C8_NoTitle(doc)

\* an Article with the fallback author and the full 50 images
C8_Witness ==
  /\ article.returned
  /\ article.author = UnknownAuthor
  /\ Len(imageData) > 50
  /\ Len(article.images) = 50

\* where the src="..." attributes of serialized HTML are: the index of
\* the name, and of the quote that closes the value
srcSpans(markup) ==
  LET starts == {a \in 1..(Len(markup) - 2) : markup[a] = "src" /\ markup[a + 1] = "=\""}
      close(a) == CHOOSE b \in (a + 2)..Len(markup) :
                     markup[b] = "\"" /\ \A m \in (a + 2)..(b - 1) : markup[m] # "\""
  IN  {<<a, close(a)>> : a \in starts}

\* the src="..." values of serialized HTML
srcValues(markup) == {SubSeq(markup, sp[1] + 2, sp[2] - 1) : sp \in srcSpans(markup)}

\* the src values of the img elements of the page
C9_PageSrcs(d) ==
  LET imgs == select(d, TagSel("img"))
  IN  {escapeAttr(attr(imgs[i], "src")) : i \in 1..Len(imgs)}

C10_Failures == {"status", "contentType", "contentLength", "byteLength", "rejected", "aborted"}

\* C10: downloadImage never throws: a failed fetch, an abort, a non-ok
\* status, a content type that is no image, an oversized content-length or
\* body make it return undefined; downloadAllImages never rejects, and the
\* entry of a failed image keeps originalUrl and alt, with base64 undefined.
C10_DownloadNeverThrows ==
  /\ error # Uncaught
  /\ \A i \in 1..Len(downloads) :
        /\ downloads[i].pc \in {"awaitFetch", "awaitBody", "settled"}
        /\ downloads[i].pc = "settled" =>
             /\ downloads[i].ended \in C10_Failures \cup {"data"}
             /\ downloads[i].ended \in C10_Failures <=> downloads[i].result = Undefined
  /\ stage \in {"ImagesResolved", "Sanitized", "Done"} =>
       /\ Len(images) = Min(Len(imageData), 50)
       /\ \A i \in 1..Len(images) :
             /\ images[i].originalUrl = imageData[i].url
             /\ images[i].alt = imageData[i].alt
             /\ downloads[i].ended \in C10_Failures => images[i].base64 = Undefined

\* the entry of an image whose fetch was rejected
C10_Witness ==
  /\ stage = "ImagesResolved"
  /\ \E i \in 1..Len(images) :
        /\ downloads[i].ended = "rejected"
        /\ images[i].base64 = Undefined
        /\ images[i].alt # Undefined
        /\ images[i].originalUrl = imageData[i].url

\* one step of the downloads of a page whose downloads are answered one by
\* one: it moves one download and nothing else of the call
C11_Step ==
  (Downloading /\ Len(downloads) <= MaxInterleaved /\ downloads' # downloads) =>
     /\ Len(downloads') = Len(downloads)
     /\ Cardinality({i \in 1..Len(downloads) : downloads'[i] # downloads[i]}) = 1
     /\ <<stage, error, metadata, imageData, images, content, article>>'
          = <<stage, error, metadata, imageData, images, content, article>>

\* C11: how the image requests are answered decides the base64 of each
\* image and nothing else: once the downloads are under way, whether the
\* call returns or fails, its error, the metadata, the content and the
\* originalUrl and alt of every entry of images are what the page alone
\* gives, entry i holds the result of download i, and a step of one
\* download leaves every other download as it was.
C11_ImageOutcomeIsLocal ==
  /\ [](contentSelector # NoSelector =>
         LET data == limitedImageData(extractImages(doc, resolveContentSelector(doc)))
         IN  /\ metadata = extractMetadata(doc, url)
             /\ Len(downloads) = Len(data)
             /\ stage \in {"MetadataExtracted", "ImagesResolved", "Sanitized", "Done", "Failed"}
             /\ stage = "Failed" =>
                   error = "PARSE_ERROR" /\ cleanHtml(doc, resolveContentSelector(doc)) = <<>>
             /\ stage = "Done" =>
                   /\ cleanHtml(doc, resolveContentSelector(doc)) # <<>>
                   /\ article = buildArticle(extractMetadata(doc, url),
                                             cleanHtml(doc, resolveContentSelector(doc)), images)
             /\ stage \in {"ImagesResolved", "Sanitized", "Done"} =>
                   images = [i \in 1..Len(data) |->
                               [originalUrl |-> data[i].url, base64 |-> downloads[i].result,
                                alt |-> data[i].alt]])
  /\ [][C11_Step]_vars

\* an Article whose first image was oversized and whose second was embedded
C11_Witness ==
  /\ stage = "Done"
  /\ Len(article.images) = 2
  /\ downloads[1].ended \in {"contentLength", "byteLength"}
  /\ article.images[1].base64 = Undefined
  /\ downloads[2].ended = "data"
  /\ article.images[2].base64 = downloads[2].result
  /\ article.images[2].base64 # Undefined

\* C12: downloadAllImages returns min(50, n) entries for n candidates, and
\* entry i carries the originalUrl and alt of candidate i, in whatever
\* order the downloads settled.
C12_EntriesInInputOrder ==
  stage \in {"ImagesResolved", "Sanitized", "Done"} =>
    /\ Len(images) = IF Len(imageData) < 50 THEN Len(imageData) ELSE 50
    /\ \A i \in 1..Len(images) :
          /\ images[i].originalUrl = imageData[i].url
          /\ images[i].alt = imageData[i].alt
    /\ \A i \in 1..Len(downloads) : downloads[i].rank \in 1..Len(downloads)
    /\ \A i, j \in 1..Len(downloads) : downloads[i].rank = downloads[j].rank => i = j

\* 52 candidates whose downloads settled the last one first: 50 entries,
\* the first of them that of the first candidate
C12_Witness ==
  /\ stage = "ImagesResolved"
  /\ Len(imageData) = 52
  /\ Len(images) = 50
  /\ downloads[1].rank = 50 /\ downloads[50].rank = 1
  /\ images[1].originalUrl = imageData[1].url
  /\ images[50].originalUrl = imageData[50].url

\* the bodies of at most 5 MiB
C13_WithinLimit == {body \in ImageBodies : body.byteLength <= 5242880}

\* C13: a data URI is only ever made of a body of at most 5 * 1024 * 1024
\* bytes: of the bodies a download can receive, those up to exactly 5 MiB
\* give a data URI and the larger ones undefined, and a response whose
\* content-length is above 5 MiB gives undefined before the body is read.
C13_SizeLimit ==
  \A i \in 1..Len(downloads) :
     /\ downloads[i].result # Undefined =>
          /\ downloads[i].ended = "data"
          /\ \E body \in C13_WithinLimit :
                SubSeq(downloads[i].result, Len(downloads[i].result) - 2,
                       Len(downloads[i].result)) = toBase64(body)
     /\ downloads[i].ended \in {"contentLength", "byteLength"} => downloads[i].result = Undefined
     /\ downloads[i].pc = "awaitBody" =>
          \A body \in ImageBodies :
             (imageOnBody(downloads[i], body).result # Undefined) <=> body \in C13_WithinLimit
     /\ downloads[i].pc = "awaitFetch" =>
          \A resp \in ImageResponses :
             resp.contentLength = <<"5242881">> =>
                /\ imageOnResponse(downloads[i], resp).pc = "settled"
                /\ imageOnResponse(downloads[i], resp).result = Undefined

\* a body of exactly 5 MiB has been embedded, next to a download that was
\* refused for its content-length
C13_Witness ==
  /\ Len(downloads) = 2
  /\ downloads[1].ended = "data"
  /\ downloads[1].result = <<"data:", "image/", "png", ";base64,">>
                             \o toBase64([byteLength |-> 5242880, bytes |-> "big"])
  /\ downloads[2].ended = "contentLength"
  /\ downloads[2].result = Undefined

\* C14: an ok response whose content-type header is present and does not
\* start with 'image/' makes downloadImage return undefined; with the
\* header absent the type is image/jpeg; a data URI is 'data:' followed by
\* the content type, ';base64,' and the base64 of the body.
C14_ContentType ==
  \A i \in 1..Len(downloads) :
     downloads[i].pc = "awaitFetch" =>
        \A resp \in ImageResponses :
           LET next == imageOnResponse(downloads[i], resp)
               type == IF resp.contentType = Undefined THEN <<"image/", "jpeg">>
                       ELSE resp.contentType
           IN  /\ (resp.ok /\ resp.contentType # Undefined
                     /\ ~startsWith(resp.contentType, <<"image/">>)) =>
                      (next.pc = "settled" /\ next.result = Undefined)
               /\ next.pc = "awaitBody" =>
                      \A body \in C13_WithinLimit :
                         imageOnBody(next, body).result
                           = <<"data:">> \o type \o <<";base64,">> \o toBase64(body)

\* C15: extractImages never returns two entries with the same url: of the
\* imgs that resolve to one URL the first in the document gives the entry
\* and its alt, the later ones give none.
C15_NoDuplicateUrls ==
  contentSelector # NoSelector =>
    \A i, j \in 1..Len(imageData) : imageData[i].url = imageData[j].url => i = j

\* C16: every url extractImages returns begins with http:// or https://:
\* a source starting with // is prefixed with https:, an absolute http or
\* https URL is taken as it is, and every other source gives no entry.
C16_OnlyAbsoluteUrls ==
  contentSelector # NoSelector =>
    \A i \in 1..Len(imageData) :
       \/ startsWith(imageData[i].url, <<"http", ":", "//">>)
       \/ startsWith(imageData[i].url, <<"http", "s", ":", "//">>)

\* the tags of the structural blocklist
C17_Blocklist ==
  {"nav", "header", "footer", "aside", "script", "style", "noscript", "iframe", "svg",
   "button", "form", "input"}

\* C17: the output of cleanHtml holds, at any depth, no element of the
\* structural blocklist, none that matches a selector of
\* ELEMENTS_TO_REMOVE, and no element other than img, br, hr, input, meta
\* and link whose trimmed text is empty and that contains no img.
C17_NoUnwantedElements ==
  (stage \in {"Sanitized", "Done"} /\ content # <<>>) =>
    LET tree == cleanAttributes(removeUnwantedElements(select(doc, contentSelector)))[1]
        kept == findIn(tree, TagSel("*"), FALSE)
    IN  /\ content = trim(removeWhitespaceBetweenTags(collapseWhitespace(innerHtml(<<tree>>))))
        /\ \A a \in 1..(Len(content) - 1) :
              content[a] \in {"<", "</"} => content[a + 1] \notin C17_Blocklist
        /\ \A k \in 1..Len(kept) :
              /\ kept[k].tag \notin C17_Blocklist
              /\ \A r \in 1..Len(ELEMENTS_TO_REMOVE) : ~matchesSimple(kept[k], ELEMENTS_TO_REMOVE[r])
              /\ kept[k].tag \notin {"img", "br", "hr", "input", "meta", "link"} =>
                    \/ \E a \in 1..Len(textOf(kept[k])) : ~IsWs(textOf(kept[k])[a])
                    \/ findIn(kept[k], TagSel("img"), FALSE) # <<>>

\* the content of a page that held a script, a share bar, and a block
\* quote around a button, an empty em and a navigation span: the block
\* quote is kept, without them
C17_Witness ==
  /\ stage = "Sanitized"
  /\ html = ContentPage("section", <<ImgSrc(UrlA, <<"first">>)>>)
  /\ select(doc, TagSel("button")) # <<>>
  /\ select(doc, TagSel("script")) # <<>>
  /\ \E a \in 1..(Len(content) - 2) : SubSeq(content, a, a + 2) = <<"<", "blockquote", ">">>
  /\ \A a \in 1..Len(content) : content[a] \notin {"button", "script", "em", "Clap", "Next"}

\* the attributes written in serialized HTML: the tag of the element and
\* the name of the attribute
C18_Attributes(markup) ==
  {<<markup[1 + CHOOSE b \in 1..a : markup[b] = "<" /\ \A c \in (b + 1)..a : markup[c] # "<"],
     markup[a]>> : a \in {n \in 2..(Len(markup) - 1) : markup[n + 1] = "=\""}}

\* the data-* names other than data-testid, the aria-* names and the on*
\* names among the attribute names of the pages
C18_Stripped ==
  {"data-src", "data-tracking", "data-field", "aria-label", "aria-hidden",
   "onclick", "onerror", "onload"}

\* C18: in the output of cleanHtml no element carries a data-* attribute
\* other than data-testid, an aria-* attribute or an on* attribute, an a
\* element carries at most href and title, an img at most src and alt.
C18_AttributesCleaned ==
  stage \in {"Sanitized", "Done"} =>
    \A at \in C18_Attributes(content) :
       /\ at[2] \notin C18_Stripped
       /\ at[1] = "a" => at[2] \in {"href", "title"}
       /\ at[1] = "img" => at[2] \in {"src", "alt"}

\* the content of a page whose link had target and onclick, whose div had
\* data-tracking, data-testid and aria-label and whose img had width
C18_Witness ==
  /\ stage = "Sanitized"
  /\ html = ContentPage("section", <<ImgSrc(UrlA, <<"first">>)>>)
  /\ \E k \in 1..Len(select(doc, TagSel("a"))) :
        {"target", "onclick"} \subseteq DOMAIN select(doc, TagSel("a"))[k].attrs
  /\ C18_Attributes(content)
       = {<<"a", "href">>, <<"div", "data-testid">>, <<"img", "src">>, <<"img", "alt">>}

\* what a selector yields on the page: the trimmed text of its first
\* match, or the trimmed content attribute for a meta selector; empty
\* when it matches nothing
C19_Yield(d, sel) ==
  LET matched == select(d, sel)
  IN  IF matched = <<>> THEN <<>>
      ELSE IF sel.tag = "meta"
      THEN (IF "content" \in DOMAIN matched[1].attrs THEN trim(matched[1].attrs["content"])
            ELSE <<>>)
      ELSE trim(textOf(matched[1]))

\* the value of the earliest selector that yields one, or undefined
C19_Earliest(d, selectors) ==
  LET yielding == {k \in 1..Len(selectors) : C19_Yield(d, selectors[k]) # <<>>}
  IN  IF yielding = {} THEN Undefined
      ELSE C19_Yield(d, selectors[CHOOSE k \in yielding : \A m \in yielding : k <= m])

\* C19: for title, subtitle and author extractWithSelectors returns the
\* value of the earliest selector of the list that yields a non-empty
\* trimmed value, a later selector's value only when every earlier one
\* yields nothing, and undefined only when none yields a value.
C19_EarliestSelectorWins ==
  metadata # NoMetadata =>
    /\ \A selectors \in {TitleSelectors, SubtitleSelectors, AuthorSelectors} :
          extractWithSelectors(doc, selectors) = C19_Earliest(doc, selectors)
    /\ metadata.title = C19_Earliest(doc, TitleSelectors)
    /\ metadata.subtitle = C19_Earliest(doc, SubtitleSelectors)
    /\ metadata.author = IF C19_Earliest(doc, AuthorSelectors) = Undefined THEN <<"Unknown Author">>
                         ELSE C19_Earliest(doc, AuthorSelectors)

\* the value of an attribute of the first element matching a selector,
\* empty when nothing matches or the attribute is not there
C20_First(d, sel, name) ==
  LET matched == select(d, sel)
  IN  IF matched = <<>> THEN <<>>
      ELSE IF name \in DOMAIN matched[1].attrs THEN matched[1].attrs[name]
      ELSE <<>>

\* C20: publishedDate is the datetime of the first time[datetime] element
\* when that is non-empty, otherwise the content of the first
\* meta[property="article:published_time"] element when that is non-empty,
\* otherwise the current instant.
C20_PublishedDate ==
  metadata # NoMetadata =>
    LET datetime == C20_First(doc, Sel("", "time", "datetime", "has", ""), "datetime")
        published == C20_First(doc, Sel("", "meta", "property", "=", "article:published_time"),
                               "content")
    IN  metadata.publishedDate = IF datetime # <<>> THEN datetime
                                 ELSE IF published # <<>> THEN published
                                 ELSE NowIso

\* the texts of the elements the tag selectors match, selector by selector
\* and in document order under each, trimmed and lower-cased
C21_Encountered(d) ==
  LET matched == Flatten([k \in 1..Len(TagSelectors) |-> select(d, TagSelectors[k])])
  IN  [i \in 1..Len(matched) |-> toLowerCase(trim(textOf(matched[i])))] \o <<>>

\* the encountered texts that are non-empty and shorter than 50 characters,
\* each at its first occurrence only
C21_Expected(d) ==
  LET seen == C21_Encountered(d)
      kept == {i \in 1..Len(seen) :
                 /\ seen[i] # <<>>
                 /\ length(seen[i]) < 50
                 /\ \A j \in 1..(i - 1) : seen[j] # seen[i]}
      nth(n) == CHOOSE i \in kept : Cardinality({j \in kept : j < i}) = n - 1
  IN  [n \in 1..Cardinality(kept) |-> seen[nth(n)]]

\* C21: the tags of a returned Article are undefined or a non-empty list
\* whose entries are trimmed, lower-case, non-empty, shorter than 50
\* characters and pairwise different; they are the texts encountered, in
\* encounter order, each at its first occurrence, and undefined when no
\* text qualifies.
C21_Tags ==
  article.returned =>
    /\ \/ article.tags = NoTags
       \/ /\ Len(article.tags) > 0
          /\ \A i \in 1..Len(article.tags) :
                LET tag == article.tags[i]
                IN  /\ tag # <<>>
                    /\ tag # Undefined
                    /\ trim(tag) = tag
                    /\ toLowerCase(tag) = tag
                    /\ length(tag) < 50
                    /\ \A j \in 1..Len(article.tags) : j # i => article.tags[j] # tag
    /\ article.tags = IF C21_Expected(doc) = <<>> THEN NoTags ELSE C21_Expected(doc)

\* an Article is returned for a page where a link comes before the tag
\* elements and spells a tag that a later element repeats in another case
C21_Witness ==
  /\ article.returned
  /\ article.tags = <<<<"javascript">>, <<"tech">>>>
  /\ Len(C21_Encountered(doc)) = 3
  /\ C21_Encountered(doc)[3] = <<"tech">>
  /\ textOf(select(doc, TagSelectors[2])[1]) = <<"Tech">>

C24_FirstFailure(resp) ==
  IF ~resp.ok THEN "status"
  ELSE IF resp.contentType \notin {Undefined, <<>>, <<"image/", "png">>} THEN "contentType"
  ELSE IF resp.contentLength \in {<<"5242881">>} THEN "contentLength"
  ELSE ""

\* a step of a download answered on its own: arrayBuffer() is called on the
\* arrival of the response only, the byte length is checked and a data URI
\* made on the arrival of the body only, and a download that has returned
\* keeps what it returned
C24_Step ==
  \A i \in 1..Len(downloads) :
     (Len(downloads) <= MaxInterleaved /\ Len(downloads') = Len(downloads)) =>
        /\ (downloads'[i].pc = "awaitBody" /\ downloads[i].pc # "awaitBody")
              => downloads[i].pc = "awaitFetch"
        /\ (downloads'[i].ended \in {"byteLength", "data"} /\ downloads[i].ended = "")
              => downloads[i].pc = "awaitBody"
        /\ downloads[i].pc = "settled" =>
              /\ downloads'[i].pc = "settled"
              /\ downloads'[i].ended = downloads[i].ended
              /\ downloads'[i].result = downloads[i].result

\* C24: a response with a content-length above 5 MiB makes downloadImage
\* return undefined without calling arrayBuffer(); the checks run in the
\* order status, content-type, content-length, byte length of the body, and
\* the body is read only for a response that passed the first three.
C24_BodyReadLast ==
  /\ [](\A i \in 1..Len(downloads) :
          /\ downloads[i].pc = "awaitFetch" =>
               \A resp \in ImageResponses :
                  LET next == imageOnResponse(downloads[i], resp)
                  IN  /\ next.pc = "awaitBody" <=> C24_FirstFailure(resp) = ""
                      /\ next.pc # "awaitBody" =>
                            /\ next.pc = "settled"
                            /\ next.result = Undefined
                            /\ next.ended = C24_FirstFailure(resp)
                      /\ parseInt(resp.contentLength) > 5 * 1024 * 1024 => next.pc = "settled"
          /\ downloads[i].ended \in {"status", "contentType", "contentLength"} =>
               downloads[i].pc = "settled" /\ downloads[i].result = Undefined)
  /\ [][C24_Step]_vars

\* one download has been refused for its content-length while the other,
\* which passed the three checks, is waiting for its body
C24_Witness ==
  /\ Len(downloads) = 2
  /\ downloads[1].ended = "contentLength"
  /\ downloads[1].pc = "settled"
  /\ downloads[2].pc = "awaitBody"

\* the images extractImages would list from the img elements that the
\* removal pass of cleanHtml leaves in the first match of the content
\* selector, the subtree the content is written from
C25_ImagesOfContent(d, sel) ==
  IF select(d, sel) = <<>> THEN <<>>
  ELSE eachImg(find(removeUnwantedElements(<<select(d, sel)[1]>>), TagSel("img")))

\* C25: every ArticleImage of a returned Article is the image of an img
\* element that is still in the returned content; none comes from an
\* element the sanitizer removes or from a further match of the content
\* selector.
C25_ImagesAreInContent ==
  article.returned =>
    \A i \in 1..Len(article.images) :
       \E k \in 1..Len(C25_ImagesOfContent(doc, contentSelector)) :
          C25_ImagesOfContent(doc, contentSelector)[k].url = article.images[i].originalUrl

\* the img elements that the removal pass of cleanHtml leaves in the first
\* match of the content selector and whose source is their data-src alone
C29_LazyImgs(d, sel) ==
  IF select(d, sel) = <<>> THEN <<>>
  ELSE SelectSeq(find(removeUnwantedElements(<<select(d, sel)[1]>>), TagSel("img")),
                 LAMBDA img : ~Truthy(attr(img, "src")) /\ Truthy(attr(img, "data-src")))

\* C29: after cleanHtml an img whose source was supplied by data-src alone
\* carries that value as its src, so an image that extractImages reports
\* from a data-src still has a src in the sanitized content.
C29_LazySrcKept ==
  (stage \in {"Sanitized", "Done"} /\ content # <<>>) =>
     \A k \in 1..Len(C29_LazyImgs(doc, contentSelector)) :
        escapeAttr(attr(C29_LazyImgs(doc, contentSelector)[k], "data-src")) \in srcValues(content)

\* the maxRequests of the limiter of a route
C26_Max(route) ==
  IF route = "scrape" THEN RATE_LIMIT_MAX_REQUESTS ELSE maxRequests[route]

C30_SameDecisions ==
  \A route \in Routes : \A ip \in ClientIps : \A k \in 0..MaxTicks :
    k * TickMs >= now =>
      routeRateLimit(route, limiters[route], ip, k * TickMs).admit
        = routeRateLimit(route, uncleaned[route], ip, k * TickMs).admit

\* a step deletes only records whose resetAt has been reached, and the
\* request of one client leaves the decision for every other client as it was
C30_Step ==
  /\ \A route \in Routes : \A ip \in DOMAIN limiters[route] :
       ip \notin DOMAIN limiters'[route] => now >= limiters[route][ip].resetAt
  /\ (now' = now /\ (admitted' # admitted \/ request' # request)) =>
       \A route \in Routes : \A ip \in ClientIps \ {request'.ip} :
         routeRateLimit(route, limiters'[route], ip, now).admit
           = routeRateLimit(route, limiters[route], ip, now).admit

\* C30: with a clock that never runs backwards the cleanup is
\* unobservable.  It deletes only records whose resetAt has been reached,
\* every decision is the one a limiter without cleanup takes, and the
\* requests of one client never change the decision for another.
C30_CleanupUnobservable == [](C30_SameDecisions) /\ [][C30_Step]_vars

\* the cleanup has deleted the record of one client, and another client
\* has been rejected since
C30_Witness ==
  /\ request.status = 429
  /\ \E ip \in DOMAIN uncleaned[request.route] \ DOMAIN limiters[request.route] :
       ip # request.ip

\* the statuses the specification gives for the codes of the scraper
C22_Status(code) ==
  CASE code = "INVALID_URL" -> 400
    [] code = "NOT_FOUND" -> 404
    [] code = "PAYWALL" -> 403
    [] code = "TIMEOUT" -> 504
    [] code = "NETWORK_ERROR" -> 500
    [] code = "PARSE_ERROR" -> 500

\* C22: the switch of POST /scrape and getHttpStatusForError give every
\* code of the scraper the same status (400, 404, 403, 504, 500, 500), and
\* the response to a request whose scrapeArticle call threw a
\* ScraperException has that status, the code and the message of the
\* exception.
C22_SameStatus ==
  /\ \A code \in ErrorCodes :
       /\ scrapeErrorStatus(code) = C22_Status(code)
       /\ getHttpStatusForError(code) = C22_Status(code)
  /\ (request.pc = "responded" /\ request.thrown.kind = "ScraperException") =>
       /\ request.status = C22_Status(request.thrown.code)
       /\ request.answer = [success |-> FALSE, code |-> request.thrown.code,
                            message |-> request.thrown.message]

\* POST /convert has answered a scrape that timed out
C22_Witness ==
  /\ request.pc = "responded" /\ request.route = "convert"
  /\ request.thrown.kind = "ScraperException" /\ request.thrown.code = "TIMEOUT"
  /\ request.status = 504 /\ request.answer.code = "TIMEOUT"

\* C27: POST /convert calls scrapeArticle for the URLs in request order, one
\* call at a time, and calls the generator once, after the last URL has
\* given its article, with the articles in the order of the URLs (one per
\* URL, duplicates included).  The first failing scrape ends the request
\* with the status of its error and without a generator call, and a request
\* answered before any call threw (rate limit, body validation) has scraped
\* nothing.
C27_ConvertInOrder ==
  request.route = "convert" /\ request.pc \notin {"idle", "awaitJson"} =>
    LET urls == requestUrls(request)
        calls == Len(request.scraped)
        got == Len(request.articles)
    IN  /\ calls <= Len(urls) /\ request.scraped = SubSeq(urls, 1, calls)
        /\ request.articles = [i \in 1..got |-> [url |-> urls[i], call |-> i]]
        /\ request.pc = "awaitScrape" => calls = got + 1
        /\ request.pc = "awaitGenerator" => Len(request.generated) = 1
        /\ Len(request.generated) <= 1
        /\ request.generated # <<>> =>
             /\ calls = Len(urls) /\ got = Len(urls)
             /\ request.generated[1] =
                  [format |-> request.body.format, articles |-> request.articles]
        /\ (request.pc = "responded" /\ request.status = 200) =>
             Len(request.generated) = 1
        /\ (request.pc = "responded" /\ request.thrown.kind = "ScraperException") =>
             /\ calls = got + 1 /\ request.generated = <<>>
             /\ request.status = getHttpStatusForError(request.thrown.code)
        /\ (request.pc = "responded" /\ request.thrown.kind = "Error"
              /\ request.generated = <<>>) =>
             calls = got + 1 /\ request.status = 500
        /\ (request.pc = "responded" /\ request.thrown.kind = "") =>
             /\ request.scraped = <<>> /\ request.generated = <<>>
             /\ request.status \in {429, 400, 500}

\* a book of one URL given twice has been generated from two articles
C27_Witness ==
  /\ request.route = "convert" /\ request.pc = "responded" /\ request.status = 200
  /\ request.scraped = <<<<"https://medium.com/a">>, <<"https://medium.com/a">>>>
  /\ Len(request.generated) = 1 /\ Len(request.generated[1].articles) = 2
  /\ request.generated[1].articles[1] # request.generated[1].articles[2]

\* C28 as stated: at most one API request of the client is in flight, and
\* loading is 'idle' only when none is
C28_OneInFlight ==
  /\ Cardinality(pending) <= 1
  /\ app.loading = "idle" => pending = {}

====
